---- MODULE Spec2Model ----
(***************************************************************************)
(* Model of the retrospective board application: the store (meetings,     *)
(* notes, note_likes tables behind row level security), the MeetingBoard  *)
(* view of each connected client and the Dashboard view of the host.      *)
(*                                                                         *)
(* Every asynchronous handler is split at its await points: the request   *)
(* is issued by the client, applied by the store at some later moment and *)
(* its response handled by the client later still.                        *)
(***************************************************************************)
EXTENDS Integers, Sequences, FiniteSets, TLC

\* ------------------------------------------------------------------------
\* Bounds of the model
\* ------------------------------------------------------------------------
MaxTime == 3
\* addNote calls made in a run, over all views
MaxAdds == 2
\* toggleNoteLike calls made in a run, over all views
MaxToggles == 2
\* seconds of wall clock followed in a run
MaxClock == 4
\* typing broadcasts sent in a run, over all views
MaxSignals == 3

\* ------------------------------------------------------------------------
\* Program constants
\* ------------------------------------------------------------------------
\* 2 * 60 * 60 * 1000 ms, in hours
TwoHours == 2
\* setTimeout(..., 3000) of the typing handler, in seconds
TypingTTL == 3
\* the idle timer of a note being edited, in seconds
TypingIdle == 1

\* ------------------------------------------------------------------------
\* Users and clients
\* ------------------------------------------------------------------------
Owner == "u1"
Guest == "u2"
Users == {Owner, Guest}
NullUser == "null"
NullTime == -1
CreatedAt == 0

\* MeetingBoard views: two tabs of the host and one tab of another user
Boards == {"b1", "b2", "b3"}
\* Dashboard views (the sweep only selects meetings created by its user)
Dashboards == {"d1"}
UserOf(c) == IF c = "b3" THEN Guest ELSE Owner
\* the views in which the host presses the End button
EndViews == {"b1", "d1"}
\* the views in which notes are written: one tab of the host, one of the guest
NoteBoards == {"b1", "b3"}
\* note contents and categories typed by the users
Contents == {"x", "y"}
NoteTypes == {"glad"}
\* the views in which notes are liked
LikeBoards == {"b1", "b3"}
\* the host has the board open in two tabs
TabBoards == {"b1", "b2"}
\* the views whose expiry check is followed: the host's and the guest's
CheckBoards == {"b1", "b3"}
\* the notes users type in
TypingNotes == {1}
NoIndicator == [userId |-> NullUser, timestamp |-> NullTime]
\* no alert() of a failed edit has been shown
NoAlert == [call |-> 0, list |-> <<>>]

VARIABLES
  now,          \* wall clock, hours since the board was created
  dbMeeting,    \* the row of the meetings table
  meeting,      \* MeetingBoard state `meeting` of each board view
  expReq,       \* checkMeetingExpiration update in flight, per board view
  endReq,       \* handleEndMeetingConfirm update in flight, per view
  dashMeeting,  \* the board's entry in the Dashboard state `meetings`
  sweepReq,     \* checkExpiredMeetings run in flight, per dashboard
  dbNotes,      \* the notes table: rows of this board in insertion order
  noteSeq,      \* number of rows ever inserted into notes (id generator)
  dbLikes,      \* the note_likes table: set of <<note_id, user_id>>
  notes,        \* MeetingBoard state `notes` of each board view
  callSeq,      \* number of addNote calls made so far (names the calls)
  addReq,       \* addNote calls whose insert has not been handled yet
  insertEvents, \* realtime INSERT events whose handler has not finished
  alerts,       \* kinds of alert() shown so far, per board view
  subscribedNotes, \* the `notes` captured by the handlers of subscribeToNotes
  likingNotes,  \* MeetingBoard state `likingNotes` of each board view
  likeSeq,      \* number of toggleNoteLike calls made so far (names the calls)
  toggles,      \* toggleNoteLike calls made, per board view
  overlapped,   \* of these, the calls made while an earlier one was processed
  likeReq,      \* toggleNoteLike calls not yet removed from likingNotes
  refreshes,    \* delayed fetchNoteWithLikes refreshes not yet applied
  likeInbox,    \* note_likes events and like_change broadcasts on their
                \* way to each view over its realtime connection, in order
  clock,        \* wall clock, seconds since the views were opened
  typingIndicators, \* MeetingBoard state `typingIndicators` of each view
  typingTimeoutRef, \* typingTimeoutRef.current of each view: when the
                \* pending timeout of a note is due
  typingInbox,  \* typing broadcasts on their way to each view, in order
  typingSent,   \* typing broadcasts sent so far: starts and stops
  realtimeFix,  \* whether the script "Fix Real-time Policies" was run on
                \* the store after the policies of the migrations
  edits,        \* updateNote, updateNoteType and deleteNote calls made,
                \* per board view
  editReq,      \* of these, the calls whose response has not been handled
  noteInbox,    \* realtime UPDATE and DELETE events of notes on their way
                \* to each view, in order
  alertSeen,    \* the last alert() of a failed edit in each view: the call
                \* and the `notes` updates queued when alert() was called
  redelivered,  \* INSERT events delivered a further time so far, per view
  editingNote,  \* NoteColumn state `editingNote` of each view (0: none)
  columnTimeoutRef, \* NoteColumn typingTimeoutRef.current of each view:
                \* when the idle timer of a note is due
  submitting,   \* the note of the handleUpdateNote call of each view that
                \* awaits onUpdateNote (0: none; isSubmitting)
  mounted,      \* whether the board view is still mounted
  expirationInterval, \* whether the interval of the [meeting] effect is set
  realTimeStatus, \* MeetingBoard state `realTimeStatus` of each view
  resubscribeTimer, \* whether the timer set on CHANNEL_ERROR is pending
  activeParticipants, \* MeetingBoard state `activeParticipants`
  liveParticipants, \* MeetingBoard state `liveParticipants`
  joined,       \* whether the channel of each view is joined at the server
  trackQueued,  \* whether the channel.track call of subscribeToNotes is
                \* still to be pushed with the join of the channel
  presence,     \* the views whose presence the server tracks
  presenceState \* channel.presenceState() of each view: the snapshot of
                \* `presence` that it received last

expiryVars == <<now, dbMeeting, meeting, expReq, endReq,
                dashMeeting, sweepReq>>

noteVars == <<dbNotes, noteSeq, dbLikes, notes, callSeq, addReq,
              insertEvents, alerts>>

likeVars == <<subscribedNotes, likingNotes, likeSeq, toggles, overlapped,
              likeReq, refreshes, likeInbox>>

typingVars == <<clock, typingIndicators, typingTimeoutRef, typingInbox,
                typingSent>>

editVars == <<realtimeFix, edits, editReq, noteInbox, alertSeen, redelivered>>

columnVars == <<editingNote, columnTimeoutRef, submitting>>

mountVars == <<mounted, expirationInterval, realTimeStatus, resubscribeTimer,
               activeParticipants, liveParticipants>>

presenceVars == <<joined, trackQueued, presence, presenceState>>

channelVars == <<mountVars, presenceVars>>

vars == <<expiryVars, noteVars, likeVars, typingVars, editVars, columnVars,
          channelVars>>

\* ------------------------------------------------------------------------
\* The meetings row
\* ------------------------------------------------------------------------
Views == Boards \cup Dashboards

ActiveRow == [status |-> "active", ended_at |-> NullTime, ended_by |-> NullUser]
NoMeeting == [status |-> "none", ended_at |-> NullTime, ended_by |-> NullUser]

\* payload of the update issued by the expiry check (ended_by null = auto-ended)
AutoEndPayload_reopens(at) ==
  [status |-> "active", ended_at |-> at, ended_by |-> NullUser]
AutoEndPayload(at) ==
  [status |-> "ended", ended_at |-> at, ended_by |-> NullUser]

\* payload of the update issued when the host confirms ending the meeting
ManualEndPayload_noTime(at, uid) ==
  [status |-> "ended", ended_at |-> NullTime, ended_by |-> uid]
ManualEndPayload(at, uid) ==
  [status |-> "ended", ended_at |-> at, ended_by |-> uid]

\* RLS policy "Users can update their own meetings": USING (auth.uid() = created_by)
CanUpdateMeeting(uid) == uid = Owner

\* .update(payload).eq('id', meeting.id): the rows the statement changes.
\* The filter names the row by id only; the stored status is not compared.
UpdateMeetingRows(uid) == IF CanUpdateMeeting(uid) THEN 1 ELSE 0

\* a call: st is idle, sent (row = payload), replied (row = the row returned,
\* NoMeeting when the update matched no row) or settled (promise resolved)
IdleReq == [st |-> "idle", row |-> NoMeeting]
SettledReq == [st |-> "settled", row |-> NoMeeting]
InFlight(req) == req.st \in {"sent", "replied"}
Sent(payload) == [st |-> "sent", row |-> payload]
Replied(data) == [st |-> "replied", row |-> data]
RowsOf(req) == IF req.row = NoMeeting THEN 0 ELSE 1

\* ------------------------------------------------------------------------
\* Initial state: the board exists and is active, no view has loaded it
\* ------------------------------------------------------------------------
InitAs(rows, fix) ==
  /\ now = CreatedAt + 1
  /\ dbMeeting = ActiveRow
  /\ meeting = [c \in Boards |-> NoMeeting]
  /\ expReq = [c \in Boards |-> IdleReq]
  /\ endReq = [c \in EndViews |-> IdleReq]
  /\ dashMeeting = [d \in Dashboards |-> ActiveRow]
  /\ sweepReq = [d \in Dashboards |-> IdleReq]
  /\ dbNotes = rows
  /\ noteSeq = Len(rows)
  /\ dbLikes = {}
  /\ notes = [c \in Boards |-> <<>>]
  /\ callSeq = 0
  /\ addReq = {}
  /\ insertEvents = [c \in Boards |-> {}]
  /\ alerts = [c \in Boards |-> {}]
  /\ subscribedNotes = [c \in Boards |-> <<>>]
  /\ likingNotes = [c \in Boards |-> {}]
  /\ likeSeq = 0
  /\ toggles = [c \in Boards |-> 0]
  /\ overlapped = [c \in Boards |-> 0]
  /\ likeReq = {}
  /\ refreshes = {}
  /\ likeInbox = [c \in Boards |-> <<>>]
  /\ clock = 0
  /\ typingIndicators = [c \in Boards |-> [n \in TypingNotes |-> NoIndicator]]
  /\ typingTimeoutRef = [c \in Boards |-> [n \in TypingNotes |-> NullTime]]
  /\ typingInbox = [c \in Boards |-> <<>>]
  /\ typingSent = [starts |-> 0, stops |-> 0]
  /\ realtimeFix = fix
  /\ edits = [c \in Boards |-> 0]
  /\ editReq = {}
  /\ noteInbox = [c \in Boards |-> <<>>]
  /\ alertSeen = [c \in Boards |-> NoAlert]
  /\ redelivered = [c \in Boards |-> 0]
  /\ editingNote = [c \in Boards |-> 0]
  /\ columnTimeoutRef = [c \in Boards |-> [n \in TypingNotes |-> NullTime]]
  /\ submitting = [c \in Boards |-> 0]
  /\ mounted = [c \in Boards |-> TRUE]
  /\ expirationInterval = [c \in Boards |-> FALSE]
  /\ realTimeStatus = [c \in Boards |-> "connecting"]
  /\ resubscribeTimer = [c \in Boards |-> FALSE]
  /\ activeParticipants = [c \in Boards |-> 0]
  /\ liveParticipants = [c \in Boards |-> <<>>]
  /\ joined = [c \in Boards |-> FALSE]
  /\ trackQueued = [c \in Boards |-> TRUE]
  /\ presence = {}
  /\ presenceState = [c \in Boards |-> {}]

\* the store as the migrations leave it
InitWith(rows) == InitAs(rows, FALSE)

\* the board has just been created: no note yet
Init == InitWith(<<>>)

\* ------------------------------------------------------------------------
\* Time
\* ------------------------------------------------------------------------
Tick ==
  /\ now < MaxTime
  /\ now' = now + 1
  /\ UNCHANGED <<dbMeeting, meeting, expReq, endReq,
                 dashMeeting, sweepReq>>
  /\ UNCHANGED <<noteVars, likeVars>>
  /\ UNCHANGED <<typingVars, editVars, columnVars, channelVars>>

\* ------------------------------------------------------------------------
\* Notes: rows, local items, sequences
\* ------------------------------------------------------------------------
RECURSIVE SeqFilterOut(_, _)
\* prev.filter(note => note.id !== id)
SeqFilterOut(s, id) ==
  IF s = <<>> THEN <<>>
  ELSE IF Head(s).id = id THEN SeqFilterOut(Tail(s), id)
       ELSE <<Head(s)>> \o SeqFilterOut(Tail(s), id)

\* prev.some(note => note.id === id)
HasId(s, id) == \E i \in 1..Len(s) : s[i].id = id

\* number of entries of a list that carry the id
CountId(s, id) == Cardinality({i \in 1..Len(s) : s[i].id = id})

\* select count from note_likes where note_id = id
LikeCount(id) == Cardinality({l \in dbLikes : l[1] = id})

\* fetchNoteWithLikes: the row with like_count and user_liked read from the store
NoteWithLikes(row, uid) ==
  [id |-> row.id, content |-> row.content, type |-> row.type,
   created_by |-> row.created_by,
   like_count |-> LikeCount(row.id), user_liked |-> <<row.id, uid>> \in dbLikes]

\* { ...data, like_count: 0, user_liked: false }
NoteFromInsert(row) ==
  [id |-> row.id, content |-> row.content, type |-> row.type,
   created_by |-> row.created_by, like_count |-> 0, user_liked |-> FALSE]

\* fetchNotes: all notes of the meeting ordered by created_at, with likes
FetchedNotes(uid) == [i \in 1..Len(dbNotes) |-> NoteWithLikes(dbNotes[i], uid)]

\* ------------------------------------------------------------------------
\* MeetingBoard: fetchMeeting, then the [meeting] effect (fetchNotes and
\* subscribeToNotes); the view is loaded in one step. The handlers that
\* subscribeToNotes registers read the `notes` of the render in which the
\* effect ran, that is the list as it was before fetchNotes returned.
\* ------------------------------------------------------------------------
Loaded(c) == mounted[c] /\ meeting[c].status # "none"

\* the [meeting] effect running again after setMeeting(data): the channel is
\* removed (what was on its way to it is lost, the server drops the view's
\* presence), the notes are fetched, the handlers are registered anew over
\* the `notes` of this render and channel.track is called on the new
\* channel; the interval is cleared and set again
MeetingEffect(c) ==
  /\ notes' = [notes EXCEPT ![c] = FetchedNotes(UserOf(c))]
  /\ subscribedNotes' = [subscribedNotes EXCEPT ![c] = notes[c]]
  /\ insertEvents' = [insertEvents EXCEPT ![c] = {}]
  /\ likeInbox' = [likeInbox EXCEPT ![c] = <<>>]
  /\ noteInbox' = [noteInbox EXCEPT ![c] = <<>>]
  /\ joined' = [joined EXCEPT ![c] = FALSE]
  /\ trackQueued' = [trackQueued EXCEPT ![c] = TRUE]
  /\ presence' = presence \ {c}
  /\ presenceState' = [presenceState EXCEPT ![c] = {}]

FetchMeeting(c) ==
  /\ mounted[c]
  /\ meeting[c].status = "none"
  /\ expirationInterval' = [expirationInterval EXCEPT ![c] = TRUE]
  /\ meeting' = [meeting EXCEPT ![c] = dbMeeting]
  /\ notes' = [notes EXCEPT ![c] = FetchedNotes(UserOf(c))]
  /\ subscribedNotes' = [subscribedNotes EXCEPT ![c] = notes[c]]
  /\ UNCHANGED <<now, dbMeeting, expReq, endReq, dashMeeting, sweepReq>>
  /\ UNCHANGED <<dbNotes, noteSeq, dbLikes, callSeq, addReq, insertEvents,
                 alerts>>
  /\ UNCHANGED <<likingNotes, likeSeq, toggles, overlapped, likeReq,
                 refreshes, likeInbox>>
  /\ UNCHANGED <<typingVars, editVars, columnVars, presenceVars>>
  /\ UNCHANGED <<mounted, realTimeStatus, resubscribeTimer,
                 activeParticipants, liveParticipants>>

\* ------------------------------------------------------------------------
\* MeetingBoard: checkMeetingExpiration
\* ------------------------------------------------------------------------
\* a guard that lets the check write from the moment of creation
BoardExpired_fromCreation(t) == t >= CreatedAt

\* now >= createdAt + 2h
BoardExpired(t) == t >= CreatedAt + TwoHours

\* a tick of the interval of the [meeting] effect: the guard on the local
\* meeting and the clock, then the update is issued
CheckMeetingExpiration(c) ==
  /\ expirationInterval[c]
  /\ meeting[c].status = "active"
  /\ BoardExpired(now)
  /\ ~InFlight(expReq[c])
  /\ expReq' = [expReq EXCEPT ![c] = Sent(AutoEndPayload(now))]
  /\ UNCHANGED <<now, dbMeeting, meeting, endReq,
                 dashMeeting, sweepReq>>
  /\ UNCHANGED <<noteVars, likeVars>>
  /\ UNCHANGED <<typingVars, editVars, columnVars, channelVars>>

\* the store applies the update; .select().single() returns the row
ExpirationUpdateApply(c) ==
  /\ expReq[c].st = "sent"
  /\ IF UpdateMeetingRows(UserOf(c)) = 1
     THEN /\ dbMeeting' = expReq[c].row
          /\ expReq' = [expReq EXCEPT ![c] = Replied(expReq[c].row)]
     ELSE /\ dbMeeting' = dbMeeting
          /\ expReq' = [expReq EXCEPT ![c] = Replied(NoMeeting)]
  /\ UNCHANGED <<now, meeting, endReq, dashMeeting, sweepReq>>
  /\ UNCHANGED <<noteVars, likeVars>>
  /\ UNCHANGED <<typingVars, editVars, columnVars, channelVars>>

\* if (!error && data) setMeeting(data)
ExpirationUpdateReturn(c) ==
  /\ expReq[c].st = "replied"
  /\ expReq' = [expReq EXCEPT ![c] = SettledReq]
  /\ IF RowsOf(expReq[c]) = 1 /\ mounted[c]
     THEN /\ meeting' = [meeting EXCEPT ![c] = expReq[c].row]
          /\ MeetingEffect(c)
     ELSE UNCHANGED <<meeting, notes, subscribedNotes, insertEvents,
                      likeInbox, noteInbox, presenceVars>>
  /\ UNCHANGED <<now, dbMeeting, endReq, dashMeeting, sweepReq>>
  /\ UNCHANGED <<dbNotes, noteSeq, dbLikes, callSeq, addReq, alerts>>
  /\ UNCHANGED <<likingNotes, likeSeq, toggles, overlapped, likeReq, refreshes>>
  /\ UNCHANGED <<typingVars, columnVars, mountVars>>
  /\ UNCHANGED <<realtimeFix, edits, editReq, alertSeen, redelivered>>

\* ------------------------------------------------------------------------
\* MeetingBoard: handleEndMeetingConfirm
\* ------------------------------------------------------------------------
\* the End button is rendered for the host while the local status is active
HandleEndMeetingConfirm(c) ==
  /\ c \in EndViews
  /\ meeting[c].status = "active"
  /\ UserOf(c) = Owner
  /\ endReq[c].st = "idle"
  /\ endReq' = [endReq EXCEPT ![c] = Sent(ManualEndPayload(now, UserOf(c)))]
  /\ UNCHANGED <<now, dbMeeting, meeting, expReq,
                 dashMeeting, sweepReq>>
  /\ UNCHANGED <<noteVars, likeVars>>
  /\ UNCHANGED <<typingVars, editVars, columnVars, channelVars>>

\* .update(...).eq('id', id).eq('created_by', user.id), for both views
EndMeetingApply(c) ==
  /\ endReq[c].st = "sent"
  /\ IF UpdateMeetingRows(endReq[c].row.ended_by) = 1
     THEN /\ dbMeeting' = endReq[c].row
          /\ endReq' = [endReq EXCEPT ![c] = Replied(endReq[c].row)]
     ELSE /\ dbMeeting' = dbMeeting
          /\ endReq' = [endReq EXCEPT ![c] = Replied(NoMeeting)]
  /\ UNCHANGED <<now, meeting, expReq, dashMeeting, sweepReq>>
  /\ UNCHANGED <<noteVars, likeVars>>
  /\ UNCHANGED <<typingVars, editVars, columnVars, channelVars>>

\* the board view stores the returned row; the dashboard relies on realtime
EndMeetingReturn(c) ==
  /\ endReq[c].st = "replied"
  /\ endReq' = [endReq EXCEPT ![c] = IdleReq]
  /\ IF c \in Boards /\ RowsOf(endReq[c]) = 1
     THEN /\ meeting' = [meeting EXCEPT ![c] = endReq[c].row]
          /\ MeetingEffect(c)
     ELSE UNCHANGED <<meeting, notes, subscribedNotes, insertEvents,
                      likeInbox, noteInbox, presenceVars>>
  /\ UNCHANGED <<now, dbMeeting, expReq, dashMeeting, sweepReq>>
  /\ UNCHANGED <<dbNotes, noteSeq, dbLikes, callSeq, addReq, alerts>>
  /\ UNCHANGED <<likingNotes, likeSeq, toggles, overlapped, likeReq, refreshes>>
  /\ UNCHANGED <<typingVars, columnVars, mountVars>>
  /\ UNCHANGED <<realtimeFix, edits, editReq, alertSeen, redelivered>>

\* ------------------------------------------------------------------------
\* Dashboard
\* ------------------------------------------------------------------------
\* realtime UPDATE events on meetings bring the list entry up to date
DashMeetingUpdated(d) ==
  /\ dashMeeting[d] # dbMeeting
  /\ dashMeeting' = [dashMeeting EXCEPT ![d] = dbMeeting]
  /\ UNCHANGED <<now, dbMeeting, meeting, expReq, endReq, sweepReq>>
  /\ UNCHANGED <<noteVars, likeVars>>
  /\ UNCHANGED <<typingVars, editVars, columnVars, channelVars>>

\* the End button of the list entry is rendered while its status is active
DashHandleEndMeetingConfirm(d) ==
  /\ dashMeeting[d].status = "active"
  /\ endReq[d].st = "idle"
  /\ endReq' = [endReq EXCEPT ![d] = Sent(ManualEndPayload(now, Owner))]
  /\ UNCHANGED <<now, dbMeeting, meeting, expReq,
                 dashMeeting, sweepReq>>
  /\ UNCHANGED <<noteVars, likeVars>>
  /\ UNCHANGED <<typingVars, editVars, columnVars, channelVars>>

\* created_at < now - 2h, the filter of the sweep's select
SweepExpired(t) == CreatedAt < t - TwoHours

\* checkExpiredMeetings: the select of the host's active meetings older
\* than two hours returned this board; the update is then issued
SweepSelect(d) ==
  /\ sweepReq[d].st = "idle"
  /\ dbMeeting.status = "active"
  /\ SweepExpired(now)
  /\ sweepReq' = [sweepReq EXCEPT ![d] = Sent(AutoEndPayload(now))]
  /\ UNCHANGED <<now, dbMeeting, meeting, expReq, endReq,
                 dashMeeting>>
  /\ UNCHANGED <<noteVars, likeVars>>
  /\ UNCHANGED <<typingVars, editVars, columnVars, channelVars>>

\* the store applies it, by id only; the run then ends (emails are external)
SweepUpdateApply(d) ==
  /\ sweepReq[d].st = "sent"
  /\ dbMeeting' = IF UpdateMeetingRows(Owner) = 1
                  THEN sweepReq[d].row ELSE dbMeeting
  /\ sweepReq' = [sweepReq EXCEPT ![d] = IdleReq]
  /\ UNCHANGED <<now, meeting, expReq, endReq, dashMeeting>>
  /\ UNCHANGED <<noteVars, likeVars>>
  /\ UNCHANGED <<typingVars, editVars, columnVars, channelVars>>

\* ------------------------------------------------------------------------
\* Expiry enforcer and end of meeting
\* ------------------------------------------------------------------------
NextExpiry ==
  \/ Tick
  \/ \E c \in TabBoards : FetchMeeting(c)
  \/ \E c \in TabBoards : CheckMeetingExpiration(c)
  \/ \E c \in TabBoards : ExpirationUpdateApply(c)
  \/ \E c \in TabBoards : ExpirationUpdateReturn(c)
  \/ \E c \in TabBoards : HandleEndMeetingConfirm(c)
  \/ \E c \in EndViews : EndMeetingApply(c)
  \/ \E c \in EndViews : EndMeetingReturn(c)
  \/ \E d \in Dashboards : DashMeetingUpdated(d)
  \/ \E d \in Dashboards : DashHandleEndMeetingConfirm(d)
  \/ \E d \in Dashboards : SweepSelect(d)
  \/ \E d \in Dashboards : SweepUpdateApply(d)

SpecExpiry == Init /\ [][NextExpiry]_vars

\* ------------------------------------------------------------------------
\* Properties of the expiry enforcer
\* ------------------------------------------------------------------------
\* a step in which the store applies the update of an expiry check
\* (board view or dashboard sweep) and the update matches the row
ExpiryWriteApplied ==
  \/ \E c \in Boards : /\ expReq[c].st = "sent"
                       /\ expReq'[c].st = "replied"
                       /\ RowsOf(expReq'[c]) = 1
  \/ \E d \in Dashboards : /\ sweepReq[d].st = "sent"
                           /\ sweepReq'[d].st = "idle"

NoCallInFlight ==
  /\ \A c \in Boards : ~InFlight(expReq[c])
  /\ \A c \in EndViews : ~InFlight(endReq[c])
  /\ \A d \in Dashboards : ~InFlight(sweepReq[d])

\* C1: of the expiry writes raced by several clients on an expired active
\* board exactly one changes the stored row: an expiry write that matches
\* the row is applied only while the stored status is still active (a row
\* already auto-ended, ended_by = null, is not written again).
C1_OneEffectiveExpiryWrite ==
  [][(ExpiryWriteApplied /\ dbMeeting.ended_by = NullUser)
       => dbMeeting.status = "active"]_vars

\* C2: once the host has ended the board (ended_by = the host's id) no
\* expiry write changes the stored ended_by or ended_at.
C2_ManualEndNotOverwritten ==
  [][(ExpiryWriteApplied /\ dbMeeting.ended_by = Owner)
       => /\ dbMeeting'.ended_by = dbMeeting.ended_by
          /\ dbMeeting'.ended_at = dbMeeting.ended_at]_vars

\* C3: once the stored status is ended it never becomes active again.
C3_EndedIsTerminal ==
  [][dbMeeting.status = "ended" => dbMeeting'.status = "ended"]_vars

\* the board is ended and an expiry write has been applied on top of the
\* row another expiry write had already ended
C3_Witness ==
  /\ dbMeeting.status = "ended"
  /\ \E c \in Boards : /\ expReq[c].st = "replied"
                       /\ RowsOf(expReq[c]) = 1
                       /\ expReq[c].row # dbMeeting

\* C4: when the two tabs of the host have both run the expiry check on the
\* expired board and both checks have settled, the local board state of each
\* tab equals the stored board state.
C4_TabsObserveStoredState ==
  (/\ expReq["b1"].st = "settled"
   /\ expReq["b2"].st = "settled"
   /\ meeting["b1"].ended_by = NullUser
   /\ meeting["b2"].ended_by = NullUser
   /\ NoCallInFlight)
  => /\ meeting["b1"] = dbMeeting
     /\ meeting["b2"] = dbMeeting


\* ------------------------------------------------------------------------
\* The notes table
\* ------------------------------------------------------------------------
NoRow == [id |-> 0, content |-> "", type |-> "", created_by |-> NullUser]

\* RLS policy "Users can create notes": auth.uid() = created_by and the
\* meeting is active; the script recreates it without the second condition
CanInsertNote(uid) == realtimeFix \/ dbMeeting.status = "active"

ErrRls == "new row violates row-level security policy"
ErrNetwork == "Failed to fetch"
\* .single() on an update that matched no row
ErrNoRows == "JSON object requested, multiple (or no) rows returned"
ErrFk == "insert or update on table violates foreign key constraint"
ErrMessages == {ErrRls, ErrNetwork, ErrNoRows, ErrFk}

\* error.message.includes('active')
IncludesActive(msg) == msg \notin ErrMessages

\* an addNote call: its number, the view, the placeholder id (0 when the
\* view inserts no placeholder), the input, and the state of the insert
AddCall(n, c, temp, content, type) ==
  [call |-> n, client |-> c, temp |-> temp, content |-> content,
   type |-> type, st |-> "sent", row |-> NoRow, err |-> ""]

\* the store applies the insert, or the call fails (policy, connectivity);
\* an inserted row is announced to every subscribed view
InsertNoteApply(r) ==
  /\ r \in addReq
  /\ r.st = "sent"
  /\ \/ /\ CanInsertNote(UserOf(r.client))
        /\ LET row == [id |-> noteSeq + 1, content |-> r.content,
                       type |-> r.type, created_by |-> UserOf(r.client)]
           IN /\ dbNotes' = Append(dbNotes, row)
              /\ noteSeq' = noteSeq + 1
              /\ addReq' = (addReq \ {r}) \cup
                             {[r EXCEPT !.st = "ok", !.row = row]}
              /\ insertEvents' = [b \in Boards |->
                                    IF Loaded(b) THEN insertEvents[b] \cup {row}
                                    ELSE insertEvents[b]]
     \/ /\ \E msg \in {ErrRls, ErrNetwork} :
             /\ msg = ErrRls => ~CanInsertNote(UserOf(r.client))
             /\ addReq' = (addReq \ {r}) \cup
                            {[r EXCEPT !.st = "err", !.err = msg]}
        /\ UNCHANGED <<dbNotes, noteSeq, insertEvents>>
  /\ UNCHANGED <<dbLikes, notes, callSeq, alerts>>
  /\ UNCHANGED <<expiryVars, likeVars>>
  /\ UNCHANGED <<typingVars, editVars, columnVars, channelVars>>

AddAlert(msg) == IF IncludesActive(msg) THEN "add_ended" ELSE "add_failed"

\* ------------------------------------------------------------------------
\* MeetingBoard.tsx: addNote and the notes INSERT handler
\* ------------------------------------------------------------------------
\* the insert is issued; nothing is shown until it returns
AddNote(c, content, type) ==
  /\ Loaded(c)
  /\ callSeq < MaxAdds
  /\ callSeq' = callSeq + 1
  /\ IF meeting[c].status = "ended"
     THEN /\ alerts' = [alerts EXCEPT ![c] = @ \cup {"add_ended"}]
          /\ UNCHANGED addReq
     ELSE /\ addReq' = addReq \cup {AddCall(callSeq + 1, c, 0, content, type)}
          /\ UNCHANGED alerts
  /\ UNCHANGED <<dbNotes, noteSeq, dbLikes, notes, insertEvents>>
  /\ UNCHANGED <<expiryVars, likeVars>>
  /\ UNCHANGED <<typingVars, editVars, columnVars, channelVars>>

\* on error alert and return; otherwise setNotes(prev => [...prev, newNote])
AddNoteReturn(r) ==
  /\ r \in addReq
  /\ r.st \in {"ok", "err"}
  /\ r.temp = 0
  /\ addReq' = addReq \ {r}
  /\ IF r.st = "err"
     THEN /\ alerts' = [alerts EXCEPT ![r.client] = @ \cup {AddAlert(r.err)}]
          /\ UNCHANGED notes
     ELSE /\ notes' = [notes EXCEPT ![r.client] = Append(@, NoteFromInsert(r.row))]
          /\ UNCHANGED alerts
  /\ UNCHANGED <<dbNotes, noteSeq, dbLikes, callSeq, insertEvents>>
  /\ UNCHANGED <<expiryVars, likeVars>>
  /\ UNCHANGED <<typingVars, editVars, columnVars, channelVars>>

\* own inserts are skipped; a note of another user is appended unless present
InsertHandler_noDedupe(prev, row, uid) ==
  IF row.created_by = uid THEN prev
  ELSE Append(prev, NoteWithLikes(row, uid))
InsertHandler(prev, row, uid) ==
  IF row.created_by = uid THEN prev
  ELSE IF HasId(prev, row.id) THEN prev
  ELSE Append(prev, NoteWithLikes(row, uid))

NoteInserted(c, row) ==
  /\ row \in insertEvents[c]
  /\ insertEvents' = [insertEvents EXCEPT ![c] = @ \ {row}]
  /\ notes' = [notes EXCEPT ![c] = InsertHandler(@, row, UserOf(c))]
  /\ UNCHANGED <<dbNotes, noteSeq, dbLikes, callSeq, addReq, alerts>>
  /\ UNCHANGED <<expiryVars, likeVars>>
  /\ UNCHANGED <<typingVars, editVars, columnVars, channelVars>>

\* ------------------------------------------------------------------------
\* part_008 (MeetingBoard with optimistic create): addNote and the notes
\* INSERT handler
\* ------------------------------------------------------------------------
\* note.id.startsWith('temp-')
IsTemp(id) == id < 0

\* the placeholder is appended and the insert is issued
AddNoteOptimistic(c, content, type) ==
  /\ Loaded(c)
  /\ callSeq < MaxAdds
  /\ callSeq' = callSeq + 1
  /\ IF meeting[c].status = "ended"
     THEN /\ alerts' = [alerts EXCEPT ![c] = @ \cup {"add_ended"}]
          /\ UNCHANGED <<addReq, notes>>
     ELSE LET tempId == 0 - (callSeq + 1)
              optimisticNote ==
                [id |-> tempId, content |-> content, type |-> type,
                 created_by |-> UserOf(c), like_count |-> 0,
                 user_liked |-> FALSE]
          IN /\ notes' = [notes EXCEPT ![c] = Append(@, optimisticNote)]
             /\ addReq' = addReq \cup
                            {AddCall(callSeq + 1, c, tempId, content, type)}
             /\ UNCHANGED alerts
  /\ UNCHANGED <<dbNotes, noteSeq, dbLikes, insertEvents>>
  /\ UNCHANGED <<expiryVars, likeVars>>
  /\ UNCHANGED <<typingVars, editVars, columnVars, channelVars>>

\* prev.map(note => note.id === tempId ? {...data, like_count: 0, ...} : note)
ReplaceTemp(prev, tempId, row) ==
  [i \in 1..Len(prev) |->
     IF prev[i].id = tempId THEN NoteFromInsert(row) ELSE prev[i]]

\* on error the placeholder is filtered out, otherwise replaced by the row
AddNoteOptimisticReturn(r) ==
  /\ r \in addReq
  /\ r.st \in {"ok", "err"}
  /\ r.temp # 0
  /\ addReq' = addReq \ {r}
  /\ IF r.st = "err"
     THEN /\ notes' = [notes EXCEPT ![r.client] = SeqFilterOut(@, r.temp)]
          /\ alerts' = [alerts EXCEPT ![r.client] = @ \cup {AddAlert(r.err)}]
     ELSE /\ notes' = [notes EXCEPT ![r.client] = ReplaceTemp(@, r.temp, r.row)]
          /\ UNCHANGED alerts
  /\ UNCHANGED <<dbNotes, noteSeq, dbLikes, callSeq, insertEvents>>
  /\ UNCHANGED <<expiryVars, likeVars>>
  /\ UNCHANGED <<typingVars, editVars, columnVars, channelVars>>

\* prev.findIndex(note => temp id, same content, type and created_by); 0 = -1
OptimisticIndex(prev, row) ==
  LET match == {i \in 1..Len(prev) :
                  /\ IsTemp(prev[i].id)
                  /\ prev[i].content = row.content
                  /\ prev[i].type = row.type
                  /\ prev[i].created_by = row.created_by}
  IN IF match = {} THEN 0
     ELSE CHOOSE i \in match : \A j \in match : i <= j

\* skip a known id, else replace the matching placeholder, else append
InsertHandlerOptimistic(prev, row, uid) ==
  IF HasId(prev, row.id) THEN prev
  ELSE IF OptimisticIndex(prev, row) # 0
       THEN [prev EXCEPT ![OptimisticIndex(prev, row)] = NoteWithLikes(row, uid)]
       ELSE Append(prev, NoteWithLikes(row, uid))

NoteInsertedOptimistic(c, row) ==
  /\ row \in insertEvents[c]
  /\ insertEvents' = [insertEvents EXCEPT ![c] = @ \ {row}]
  /\ notes' = [notes EXCEPT ![c] = InsertHandlerOptimistic(@, row, UserOf(c))]
  /\ UNCHANGED <<dbNotes, noteSeq, dbLikes, callSeq, addReq, alerts>>
  /\ UNCHANGED <<expiryVars, likeVars>>
  /\ UNCHANGED <<typingVars, editVars, columnVars, channelVars>>

\* ------------------------------------------------------------------------
\* Creating notes: the two versions of the board view
\* ------------------------------------------------------------------------
NextNotes ==
  \/ \E c \in NoteBoards : FetchMeeting(c)
  \/ \E d \in Dashboards : DashHandleEndMeetingConfirm(d)
  \/ \E c \in EndViews : EndMeetingApply(c)
  \/ \E c \in EndViews : EndMeetingReturn(c)
  \/ \E c \in NoteBoards, content \in Contents, type \in NoteTypes :
       AddNote(c, content, type)
  \/ \E r \in addReq : InsertNoteApply(r)
  \/ \E r \in addReq : AddNoteReturn(r)
  \/ \E c \in NoteBoards : \E row \in insertEvents[c] : NoteInserted(c, row)

SpecNotes == Init /\ [][NextNotes]_vars

NextNotesOptimistic ==
  \/ \E c \in NoteBoards : FetchMeeting(c)
  \/ \E d \in Dashboards : DashHandleEndMeetingConfirm(d)
  \/ \E c \in EndViews : EndMeetingApply(c)
  \/ \E c \in EndViews : EndMeetingReturn(c)
  \/ \E c \in NoteBoards, content \in Contents, type \in NoteTypes :
       AddNoteOptimistic(c, content, type)
  \/ \E r \in addReq : InsertNoteApply(r)
  \/ \E r \in addReq : AddNoteOptimisticReturn(r)
  \/ \E c \in NoteBoards : \E row \in insertEvents[c] :
       NoteInsertedOptimistic(c, row)

SpecNotesOptimistic == Init /\ [][NextNotesOptimistic]_vars

\* ------------------------------------------------------------------------
\* Properties of note creation
\* ------------------------------------------------------------------------
StoredRows == {dbNotes[i] : i \in 1..Len(dbNotes)}

\* the response of the insert that created the row has been handled
ResponseHandled(row) == ~\E r \in addReq : r.st = "ok" /\ r.row = row

\* no insert and no INSERT event is still to be handled
NotesAtRest ==
  /\ addReq = {}
  /\ \A c \in Boards : insertEvents[c] = {}

CanChangeLike(uid) == realtimeFix \/ dbMeeting.status = "active"

\* the outcomes of the upsert when the (note_id, user_id) pair is already
\* stored: the row is left as it is, and the call reports success, a
\* duplicate key error, or a policy error (the table has no UPDATE policy)
UpsertConflictOutcomes == {"ok", "dup", "err"}

\* a board with one note of the host, not liked by anyone
FirstNote == [id |-> 1, content |-> "x", type |-> "glad", created_by |-> Owner]

InitLikes == InitWith(<<FirstNote>>)

\* notes.find(n => n.id === id), on a list that holds the id
FindNote(s, id) == s[CHOOSE i \in 1..Len(s) : s[i].id = id]

\* user_liked: !n.user_liked, like_count: n.user_liked ? n.like_count - 1
\*                                                     : n.like_count + 1
FlipLike(s, id) ==
  [i \in 1..Len(s) |->
     IF s[i].id = id
     THEN [s[i] EXCEPT !.user_liked = ~s[i].user_liked,
                       !.like_count = IF s[i].user_liked
                                      THEN s[i].like_count - 1
                                      ELSE s[i].like_count + 1]
     ELSE s[i]]

\* user_liked: newLikedState, like_count: initialLikedState ? n.like_count - 1
\*                                                          : n.like_count + 1
OptimisticLike(s, id, initial) ==
  [i \in 1..Len(s) |->
     IF s[i].id = id
     THEN [s[i] EXCEPT !.user_liked = ~initial,
                       !.like_count = IF initial THEN s[i].like_count - 1
                                       ELSE s[i].like_count + 1]
     ELSE s[i]]

\* user_liked: initialLikedState, like_count: initialLikedState
\*   ? n.like_count + 1 : n.like_count - 1
RevertLike(s, id, initial) ==
  [i \in 1..Len(s) |->
     IF s[i].id = id
     THEN [s[i] EXCEPT !.user_liked = initial,
                       !.like_count = IF initial THEN s[i].like_count + 1
                                       ELSE s[i].like_count - 1]
     ELSE s[i]]

\* user_liked: true, like_count: Math.max(0, n.like_count)
DuplicateLike(s, id) ==
  [i \in 1..Len(s) |->
     IF s[i].id = id
     THEN [s[i] EXCEPT !.user_liked = TRUE,
                       !.like_count = IF s[i].like_count < 0 THEN 0
                                      ELSE s[i].like_count]
     ELSE s[i]]

\* like_count: Math.max(0, note.like_count + (liked ? 1 : -1))
BroadcastLike(s, id, liked) ==
  [i \in 1..Len(s) |->
     IF s[i].id = id
     THEN [s[i] EXCEPT !.like_count =
             IF s[i].like_count + (IF liked THEN 1 ELSE -1) < 0 THEN 0
             ELSE s[i].like_count + (IF liked THEN 1 ELSE -1)]
     ELSE s[i]]

\* prev.map(n => n.id === id ? refreshedNote : n)
ReplaceNote_orAppend(s, id, note) ==
  IF HasId(s, id)
  THEN [i \in 1..Len(s) |-> IF s[i].id = id THEN note ELSE s[i]]
  ELSE Append(s, note)
ReplaceNote(s, id, note) ==
  [i \in 1..Len(s) |-> IF s[i].id = id THEN note ELSE s[i]]

\* likingNotes.has(noteId)
AlreadyProcessing_never(c, id) == FALSE
AlreadyProcessing(c, id) == id \in likingNotes[c]

\* a delayed or immediate fetchNoteWithLikes(captured) started by the view:
\* waiting for its timer, its query on the way to the store, or its result
\* (the refreshed note) on the way back
Refresh(kind, src, c, captured, st) ==
  [kind |-> kind, src |-> src, client |-> c, captured |-> captured,
   st |-> st, result |-> captured]

\* ------------------------------------------------------------------------
\* MeetingBoard.tsx: toggleNoteLike
\* ------------------------------------------------------------------------
\* up to the durable call: guards, the branch of a note already being
\* processed (the list alone is changed), or mark, optimistic update,
\* like_change broadcast to the other subscribed views and upsert / delete
ToggleNoteLike(c, id) ==
  /\ Loaded(c)
  /\ likeSeq < MaxToggles
  /\ likeSeq' = likeSeq + 1
  /\ toggles' = [toggles EXCEPT ![c] = @ + 1]
  /\ overlapped' = [overlapped EXCEPT ![c] =
                      IF \E r \in likeReq : r.client = c /\ r.note = id
                      THEN @ + 1 ELSE @]
  /\ IF meeting[c].status = "ended"
     THEN /\ alerts' = [alerts EXCEPT ![c] = @ \cup {"like_ended"}]
          /\ UNCHANGED <<notes, likingNotes, likeReq, likeInbox>>
     ELSE IF ~HasId(notes[c], id)
     THEN UNCHANGED <<alerts, notes, likingNotes, likeReq, likeInbox>>
     ELSE IF AlreadyProcessing(c, id)
     THEN /\ notes' = [notes EXCEPT ![c] = FlipLike(@, id)]
          /\ UNCHANGED <<alerts, likingNotes, likeReq, likeInbox>>
     ELSE LET note == FindNote(notes[c], id)
              initialLikedState == note.user_liked
          IN /\ likingNotes' = [likingNotes EXCEPT ![c] = @ \cup {id}]
             /\ notes' = [notes EXCEPT ![c] =
                            OptimisticLike(@, id, initialLikedState)]
             /\ likeInbox' = [b \in Boards |->
                                IF b # c /\ Loaded(b)
                                THEN Append(likeInbox[b],
                                       [kind |-> "like_change",
                                        call |-> likeSeq + 1, note |-> id,
                                        user |-> UserOf(c),
                                        liked |-> ~initialLikedState])
                                ELSE likeInbox[b]]
             /\ likeReq' = likeReq \cup
                             {[call |-> likeSeq + 1, client |-> c, note |-> id,
                               captured |-> note,
                               initial |-> initialLikedState,
                               st |-> "sent", err |-> ""]}
             /\ UNCHANGED alerts
  /\ UNCHANGED <<dbNotes, noteSeq, dbLikes, callSeq, addReq, insertEvents>>
  /\ UNCHANGED <<subscribedNotes, refreshes>>
  /\ UNCHANGED expiryVars
  /\ UNCHANGED <<typingVars, editVars, columnVars, channelVars>>

\* the change of note_likes is announced to every subscribed view
LikeEventsAfter(r) ==
  [b \in Boards |->
     IF Loaded(b)
     THEN Append(likeInbox[b],
                 [kind |-> "note_likes", call |-> r.call, note |-> r.note,
                  user |-> UserOf(r.client), liked |-> ~r.initial])
     ELSE likeInbox[b]]

\* the store applies the upsert (like) or the delete (unlike), or the call
\* fails; a delete that the policy hides removes no row and reports no error
LikeApply(r) ==
  /\ r \in likeReq
  /\ r.st = "sent"
  /\ LET uid == UserOf(r.client)
         pair == <<r.note, uid>>
         done(st, msg) == (likeReq \ {r}) \cup
                            {[r EXCEPT !.st = st, !.err = msg]}
     IN \/ /\ likeReq' = done("err", ErrNetwork)
           /\ UNCHANGED <<dbLikes, likeInbox>>
        \/ /\ ~r.initial
           /\ ~CanChangeLike(uid) \/ ~HasId(dbNotes, r.note)
           /\ likeReq' = done("err", IF CanChangeLike(uid) THEN ErrFk
                                     ELSE ErrRls)
           /\ UNCHANGED <<dbLikes, likeInbox>>
        \/ /\ ~r.initial
           /\ CanChangeLike(uid)
           /\ HasId(dbNotes, r.note)
           /\ pair \notin dbLikes
           /\ dbLikes' = dbLikes \cup {pair}
           /\ likeInbox' = LikeEventsAfter(r)
           /\ likeReq' = done("ok", "")
        \/ /\ ~r.initial
           /\ CanChangeLike(uid)
           /\ pair \in dbLikes
           /\ \E out \in UpsertConflictOutcomes :
                likeReq' = done(out, IF out = "err" THEN ErrRls ELSE "")
           /\ UNCHANGED <<dbLikes, likeInbox>>
        \/ /\ r.initial
           /\ IF CanChangeLike(uid) /\ pair \in dbLikes
              THEN /\ dbLikes' = dbLikes \ {pair}
                   /\ likeInbox' = LikeEventsAfter(r)
              ELSE UNCHANGED <<dbLikes, likeInbox>>
           /\ likeReq' = done("ok", "")
  /\ UNCHANGED <<dbNotes, noteSeq, notes, callSeq, addReq, insertEvents,
                 alerts>>
  /\ UNCHANGED <<subscribedNotes, likingNotes, likeSeq, toggles, overlapped,
                 refreshes>>
  /\ UNCHANGED expiryVars
  /\ UNCHANGED <<typingVars, editVars, columnVars, channelVars>>

\* after the durable call: nothing on success, liked on a duplicate key
\* error, revert and alert on another error; then the 100 ms refresh timer
\* and the 200 ms timer that removes the note from likingNotes are armed
LikeReturn(r) ==
  /\ r \in likeReq
  /\ r.st \in {"ok", "dup", "err"}
  /\ notes' = [notes EXCEPT ![r.client] =
                 IF r.st = "ok" THEN @
                 ELSE IF r.st = "dup" THEN DuplicateLike(@, r.note)
                 ELSE RevertLike(@, r.note, r.initial)]
  /\ alerts' = [alerts EXCEPT ![r.client] =
                  IF r.st = "err"
                  THEN @ \cup {IF IncludesActive(r.err) THEN "like_ended"
                               ELSE "like_failed"}
                  ELSE @]
  /\ refreshes' = refreshes \cup
                    {Refresh("toggle", r.call, r.client, r.captured, "timer")}
  /\ likeReq' = (likeReq \ {r}) \cup {[r EXCEPT !.st = "clearing"]}
  /\ UNCHANGED <<dbNotes, noteSeq, dbLikes, callSeq, addReq, insertEvents>>
  /\ UNCHANGED <<subscribedNotes, likingNotes, likeSeq, toggles, overlapped,
                 likeInbox>>
  /\ UNCHANGED expiryVars
  /\ UNCHANGED <<typingVars, editVars, columnVars, channelVars>>

\* the 200 ms timer: it was armed together with the 100 ms refresh timer of
\* the call and fires after it
ClearProcessing(r) ==
  /\ r \in likeReq
  /\ r.st = "clearing"
  /\ ~\E f \in refreshes :
        f.kind = "toggle" /\ f.src = r.call /\ f.st = "timer"
  /\ likingNotes' = [likingNotes EXCEPT ![r.client] = @ \ {r.note}]
  /\ likeReq' = likeReq \ {r}
  /\ UNCHANGED noteVars
  /\ UNCHANGED <<subscribedNotes, likeSeq, toggles, overlapped, refreshes,
                 likeInbox>>
  /\ UNCHANGED expiryVars
  /\ UNCHANGED <<typingVars, editVars, columnVars, channelVars>>

\* ------------------------------------------------------------------------
\* MeetingBoard.tsx: refreshing one note from the store
\* ------------------------------------------------------------------------
\* a refresh timer fires: fetchNoteWithLikes(captured) is called
RefreshTimer(f) ==
  /\ f \in refreshes
  /\ f.st = "timer"
  /\ refreshes' = (refreshes \ {f}) \cup {[f EXCEPT !.st = "query"]}
  /\ UNCHANGED noteVars
  /\ UNCHANGED <<subscribedNotes, likingNotes, likeSeq, toggles, overlapped,
                 likeReq, likeInbox>>
  /\ UNCHANGED expiryVars
  /\ UNCHANGED <<typingVars, editVars, columnVars, channelVars>>

\* the store answers the count and the user's own like
RefreshQuery(f) ==
  /\ f \in refreshes
  /\ f.st = "query"
  /\ refreshes' = (refreshes \ {f}) \cup
                    {[f EXCEPT !.st = "got",
                               !.result = NoteWithLikes(f.captured,
                                                        UserOf(f.client))]}
  /\ UNCHANGED noteVars
  /\ UNCHANGED <<subscribedNotes, likingNotes, likeSeq, toggles, overlapped,
                 likeReq, likeInbox>>
  /\ UNCHANGED expiryVars
  /\ UNCHANGED <<typingVars, editVars, columnVars, channelVars>>

\* setNotes(prev => prev.map(n => n.id === noteId ? refreshedNote : n))
RefreshApply(f) ==
  /\ f \in refreshes
  /\ f.st = "got"
  /\ refreshes' = refreshes \ {f}
  /\ notes' = [notes EXCEPT ![f.client] = ReplaceNote(@, f.captured.id, f.result)]
  /\ UNCHANGED <<dbNotes, noteSeq, dbLikes, callSeq, addReq, insertEvents,
                 alerts>>
  /\ UNCHANGED <<subscribedNotes, likingNotes, likeSeq, toggles, overlapped,
                 likeReq, likeInbox>>
  /\ UNCHANGED expiryVars
  /\ UNCHANGED <<typingVars, editVars, columnVars, channelVars>>

\* ------------------------------------------------------------------------
\* MeetingBoard.tsx: the note_likes handler and the like_change handler
\* ------------------------------------------------------------------------
\* postgres_changes on note_likes: the note is looked up in the `notes` the
\* handler captured; if found it is refreshed from the store
LikeChanged(c) ==
  /\ likeInbox[c] # <<>>
  /\ Head(likeInbox[c]).kind = "note_likes"
  /\ likeInbox' = [likeInbox EXCEPT ![c] = Tail(@)]
  /\ LET e == Head(likeInbox[c])
     IN refreshes' =
          IF HasId(subscribedNotes[c], e.note)
          THEN refreshes \cup
                 {Refresh("event", e.call, c,
                          FindNote(subscribedNotes[c], e.note), "query")}
          ELSE refreshes
  /\ UNCHANGED noteVars
  /\ UNCHANGED <<subscribedNotes, likingNotes, likeSeq, toggles, overlapped,
                 likeReq>>
  /\ UNCHANGED expiryVars
  /\ UNCHANGED <<typingVars, editVars, columnVars, channelVars>>

\* broadcast like_change: own broadcasts are skipped; the note is looked up
\* in the captured `notes`; if found the count is moved by one at once and a
\* refresh is scheduled 300 ms later
LikeBroadcast(c) ==
  /\ likeInbox[c] # <<>>
  /\ Head(likeInbox[c]).kind = "like_change"
  /\ likeInbox' = [likeInbox EXCEPT ![c] = Tail(@)]
  /\ LET m == Head(likeInbox[c])
     IN IF m.user # UserOf(c) /\ HasId(subscribedNotes[c], m.note)
        THEN /\ notes' = [notes EXCEPT ![c] =
                            BroadcastLike(@, m.note, m.liked)]
             /\ refreshes' = refreshes \cup
                               {Refresh("bcast", m.call, c,
                                        FindNote(subscribedNotes[c], m.note),
                                        "timer")}
        ELSE UNCHANGED <<notes, refreshes>>
  /\ UNCHANGED <<dbNotes, noteSeq, dbLikes, callSeq, addReq, insertEvents,
                 alerts>>
  /\ UNCHANGED <<subscribedNotes, likingNotes, likeSeq, toggles, overlapped,
                 likeReq>>
  /\ UNCHANGED expiryVars
  /\ UNCHANGED <<typingVars, editVars, columnVars, channelVars>>

\* ------------------------------------------------------------------------
\* Liking notes on an active board
\* ------------------------------------------------------------------------
NextLikes ==
  \/ \E c \in LikeBoards : FetchMeeting(c)
  \/ \E c \in LikeBoards : \E i \in 1..Len(notes[c]) :
       ToggleNoteLike(c, notes[c][i].id)
  \/ \E r \in likeReq : LikeApply(r)
  \/ \E r \in likeReq : LikeReturn(r)
  \/ \E r \in likeReq : ClearProcessing(r)
  \/ \E f \in refreshes : RefreshTimer(f)
  \/ \E f \in refreshes : RefreshQuery(f)
  \/ \E f \in refreshes : RefreshApply(f)
  \/ \E c \in LikeBoards : LikeChanged(c)
  \/ \E c \in LikeBoards : LikeBroadcast(c)

SpecLikes == InitLikes /\ [][NextLikes]_vars

\* ------------------------------------------------------------------------
\* Properties of likes
\* ------------------------------------------------------------------------
\* no toggle, refresh, note_likes event or like_change broadcast is pending
LikesAtRest ==
  /\ likeReq = {}
  /\ refreshes = {}
  /\ \A c \in Boards : likeInbox[c] = <<>>

\* the user of view c has a stored like on the note
StoredLike(c, id) == <<id, UserOf(c)>> \in dbLikes

\* C8: a user who has not liked a note calls toggleNoteLike k times on it,
\* however the calls interleave with their completion; once everything has
\* settled (and no call failed) the note is liked by the user, in the store
\* and in the user's list, iff k is odd.
C8_ToggleParity ==
  \A c \in LikeBoards :
    (LikesAtRest /\ Loaded(c) /\ alerts[c] = {} /\ HasId(notes[c], 1))
    => /\ StoredLike(c, 1) <=> (toggles[c] % 2 = 1)
       /\ FindNote(notes[c], 1).user_liked <=> (toggles[c] % 2 = 1)

C10_VisibleCountIsStoredCount ==
  (/\ LikesAtRest
   /\ \A c \in Boards : alerts[c] = {} /\ overlapped[c] = 0)
  => \A c \in LikeBoards : \A i \in 1..Len(notes[c]) :
       notes[c][i].like_count = LikeCount(notes[c][i].id)

\* ------------------------------------------------------------------------
\* Typing indicators
\* ------------------------------------------------------------------------
\* a timeout of some view is due: its callback runs before time moves on
TimeoutDue ==
  \E c \in Boards, n \in TypingNotes :
    \/ typingTimeoutRef[c][n] # NullTime /\ typingTimeoutRef[c][n] <= clock
    \/ columnTimeoutRef[c][n] # NullTime /\ columnTimeoutRef[c][n] <= clock

ClockTick ==
  /\ clock < MaxClock
  /\ ~TimeoutDue
  /\ clock' = clock + 1
  /\ UNCHANGED <<typingIndicators, typingTimeoutRef, typingInbox, typingSent>>
  /\ UNCHANGED <<expiryVars, noteVars, likeVars, editVars, columnVars,
                 channelVars>>

\* channelRef.current.send(typing): delivered to the other subscribed views
TypingBroadcast(c, n, isTyping) ==
  [b \in Boards |->
     IF b # c /\ Loaded(b)
     THEN Append(typingInbox[b],
                 [noteId |-> n, userId |-> UserOf(c), isTyping |-> isTyping])
     ELSE typingInbox[b]]

\* broadcastTypingStart and broadcastTypingStop: nothing without channel,
\* user and meeting; otherwise the typing broadcast is sent
BroadcastTyping(c, n, isTyping) ==
  /\ Loaded(c)
  /\ typingSent.starts + typingSent.stops < MaxSignals
  /\ typingSent' = IF isTyping THEN [typingSent EXCEPT !.starts = @ + 1]
                   ELSE [typingSent EXCEPT !.stops = @ + 1]
  /\ typingInbox' = TypingBroadcast(c, n, isTyping)

BroadcastTypingStart(c, n) ==
  /\ BroadcastTyping(c, n, TRUE)
  /\ UNCHANGED <<clock, typingIndicators, typingTimeoutRef>>
  /\ UNCHANGED <<expiryVars, noteVars, likeVars, editVars, columnVars,
                 channelVars>>

BroadcastTypingStop(c, n) ==
  /\ BroadcastTyping(c, n, FALSE)
  /\ UNCHANGED <<clock, typingIndicators, typingTimeoutRef>>
  /\ UNCHANGED <<expiryVars, noteVars, likeVars, editVars, columnVars,
                 channelVars>>

\* clearTimeout of the pending timeout, then setTimeout(..., 3000)
TypingDeadline_keepsPending(pending, t) ==
  IF pending # NullTime THEN pending ELSE t + TypingTTL
TypingDeadline(pending, t) == t + TypingTTL

\* the typing handler: broadcasts of the view's own user are ignored; a
\* typing signal sets the indicator of the note and restarts its timeout, a
\* stopped signal deletes the indicator and clears the timeout
TypingReceived(c) ==
  /\ typingInbox[c] # <<>>
  /\ typingInbox' = [typingInbox EXCEPT ![c] = Tail(@)]
  /\ LET m == Head(typingInbox[c])
     IN IF m.userId = UserOf(c)
        THEN UNCHANGED <<typingIndicators, typingTimeoutRef>>
        ELSE IF m.isTyping
        THEN /\ typingIndicators' =
                  [typingIndicators EXCEPT ![c][m.noteId] =
                     [userId |-> m.userId, timestamp |-> clock]]
             /\ typingTimeoutRef' =
                  [typingTimeoutRef EXCEPT ![c][m.noteId] =
                     TypingDeadline(@, clock)]
        ELSE /\ typingIndicators' =
                  [typingIndicators EXCEPT ![c][m.noteId] = NoIndicator]
             /\ typingTimeoutRef' =
                  [typingTimeoutRef EXCEPT ![c][m.noteId] = NullTime]
  /\ UNCHANGED <<clock, typingSent>>
  /\ UNCHANGED <<expiryVars, noteVars, likeVars, editVars, columnVars,
                 channelVars>>

\* the timeout callback: the indicator of the note is deleted
TypingTimeout(c, n) ==
  /\ typingTimeoutRef[c][n] # NullTime
  /\ typingTimeoutRef[c][n] <= clock
  /\ typingIndicators' = [typingIndicators EXCEPT ![c][n] = NoIndicator]
  /\ typingTimeoutRef' = [typingTimeoutRef EXCEPT ![c][n] = NullTime]
  /\ UNCHANGED <<clock, typingInbox, typingSent>>
  /\ UNCHANGED <<expiryVars, noteVars, likeVars, editVars, columnVars,
                 channelVars>>

NextTyping ==
  \/ \E c \in Boards : FetchMeeting(c)
  \/ ClockTick
  \/ \E c \in Boards, n \in TypingNotes : BroadcastTypingStart(c, n)
  \/ \E c \in Boards, n \in TypingNotes : BroadcastTypingStop(c, n)
  \/ \E c \in Boards : TypingReceived(c)
  \/ \E c \in Boards, n \in TypingNotes : TypingTimeout(c, n)

SpecTyping == InitLikes /\ [][NextTyping]_vars

\* ------------------------------------------------------------------------
\* Properties of typing indicators
\* ------------------------------------------------------------------------
Shown(c, n) == typingIndicators[c][n] # NoIndicator

\* C11: an indicator shown after a received typing signal is gone once 3
\* seconds have passed since the last typing signal received for the note,
\* stopped signal or not; it is not taken away by a timeout earlier than 3
\* seconds after the last typing signal (a further signal restarts the
\* period).
C11_TypingTTL ==
  [][\A c \in Boards : \A n \in TypingNotes :
       /\ Shown(c, n)' =>
            clock' <= typingIndicators'[c][n].timestamp + TypingTTL
       /\ (Shown(c, n) /\ ~Shown(c, n)' /\ typingInbox' = typingInbox)
            => clock = typingIndicators[c][n].timestamp + TypingTTL]_vars

\* no stopped signal was ever sent; the guest's view shows the indicator
\* of a typing signal received after time 0, and 3 seconds have passed since
C11_Witness ==
  /\ typingSent.starts = 2
  /\ typingSent.stops = 0
  /\ \A c \in Boards : typingInbox[c] = <<>>
  /\ Shown("b3", 1)
  /\ typingIndicators["b3"][1].timestamp >= 1
  /\ clock = typingIndicators["b3"][1].timestamp + TypingTTL

\* ------------------------------------------------------------------------
\* Notes: editing, moving and deleting
\* ------------------------------------------------------------------------
\* edit calls made in a run, over all views
MaxEdits == 2

\* the columns a note can be dropped in
Sections == {"glad", "mad"}

\* a board with one note of the host; the store with or without the script
\* "Fix Real-time Policies"
InitSession == \E fix \in BOOLEAN : InitAs(<<FirstNote>>, fix)

\* UPDATE policies of notes, OR-ed: "Note creators can update content"
\* (author, active meeting), "Anyone can move notes between sections"
\* (active meeting) and, with the script, "Users can update their own notes"
CanUpdateNote_always(uid, row) == TRUE
CanUpdateNote(uid, row) ==
  dbMeeting.status = "active" \/ (realtimeFix /\ uid = row.created_by)

\* DELETE policy "Users can delete their own notes": the author, in an
\* active meeting; the script recreates it without the second condition
CanDeleteNote(uid, row) ==
  uid = row.created_by /\ (realtimeFix \/ dbMeeting.status = "active")

\* .eq('id', noteId).eq('created_by', user?.id) of updateNote
ContentFilter_idOnly(uid, row, id) == row.id = id
ContentFilter(uid, row, id) == row.id = id /\ row.created_by = uid

\* .eq('id', noteId) of updateNoteType
TypeFilter(uid, row, id) == row.id = id

\* an updateNote ("content"), updateNoteType ("type") or deleteNote
\* ("delete") call: the view, the note, the new value, the originalNote
\* captured before the optimistic change, and the state of the durable call
EditCall(n, c, op, id, value, original) ==
  [call |-> n, client |-> c, op |-> op, note |-> id, value |-> value,
   original |-> original, st |-> "sent", err |-> ""]

EditsMade == edits["b1"] + edits["b2"] + edits["b3"]

\* prev.map(note => note.id === noteId ? { ...note, content } : note)
SetContent(s, id, content) ==
  [i \in 1..Len(s) |->
     IF s[i].id = id THEN [s[i] EXCEPT !.content = content] ELSE s[i]]

\* prev.map(note => note.id === noteId ? { ...note, type: newType } : note)
SetType(s, id, type) ==
  [i \in 1..Len(s) |->
     IF s[i].id = id THEN [s[i] EXCEPT !.type = type] ELSE s[i]]

\* the optimistic change of each call
Optimistic(s, op, id, value) ==
  IF op = "content" THEN SetContent(s, id, value)
  ELSE IF op = "type" THEN SetType(s, id, value)
  ELSE SeqFilterOut(s, id)

\* the rollback of each call: the note is replaced by originalNote, or
\* originalNote is put at the end of the list
Rollback_none(s, op, id, original) == s
Rollback(s, op, id, original) ==
  IF op = "delete" THEN Append(s, original)
  ELSE ReplaceNote(s, id, original)

EndedAlert(op) ==
  IF op = "content" THEN "edit_ended"
  ELSE IF op = "type" THEN "move_ended" ELSE "delete_ended"

FailedAlert(op) ==
  IF op = "content" THEN "edit_failed"
  ELSE IF op = "type" THEN "move_failed" ELSE "delete_failed"

\* meeting.status === 'ended', the first test of the three handlers
MeetingEnded_never(c) == FALSE
MeetingEnded(c) == meeting[c].status = "ended"

\* updateNote, updateNoteType (reached from handleDragEnd) and deleteNote up
\* to the durable call: the guard on the local status, originalNote, the
\* optimistic change, the request
EditNote(c, op, id, value) ==
  /\ Loaded(c)
  /\ EditsMade < MaxEdits
  /\ HasId(notes[c], id)
  /\ edits' = [edits EXCEPT ![c] = @ + 1]
  /\ IF MeetingEnded(c)
     THEN /\ alerts' = [alerts EXCEPT ![c] = @ \cup {EndedAlert(op)}]
          /\ UNCHANGED <<notes, editReq>>
     ELSE /\ notes' = [notes EXCEPT ![c] = Optimistic(@, op, id, value)]
          /\ editReq' = editReq \cup
                          {EditCall(EditsMade + 1, c, op, id, value,
                                    FindNote(notes[c], id))}
          /\ UNCHANGED alerts
  /\ UNCHANGED <<dbNotes, noteSeq, dbLikes, callSeq, addReq, insertEvents>>
  /\ UNCHANGED <<realtimeFix, noteInbox, alertSeen, redelivered>>
  /\ UNCHANGED <<expiryVars, likeVars, typingVars, channelVars>>

UpdateNote(c, id, content) ==
  EditNote(c, "content", id, content) /\ UNCHANGED columnVars

UpdateNoteType(c, id, newType) ==
  EditNote(c, "type", id, newType) /\ UNCHANGED columnVars

DeleteNote(c, id) ==
  EditNote(c, "delete", id, "") /\ UNCHANGED columnVars

\* the rows an edit call changes: those its filter selects and the policies
\* let the user see for the statement
EditMatches(r, row) ==
  LET uid == UserOf(r.client)
  IN IF r.op = "content"
     THEN ContentFilter(uid, row, r.note) /\ CanUpdateNote(uid, row)
     ELSE IF r.op = "type"
     THEN TypeFilter(uid, row, r.note) /\ CanUpdateNote(uid, row)
     ELSE ContentFilter(uid, row, r.note) /\ CanDeleteNote(uid, row)

\* the notes table after the statement of the call
EditedRows(r) ==
  IF r.op = "delete"
  THEN SelectSeq(dbNotes, LAMBDA row : ~EditMatches(r, row))
  ELSE [i \in 1..Len(dbNotes) |->
          IF ~EditMatches(r, dbNotes[i]) THEN dbNotes[i]
          ELSE IF r.op = "content"
               THEN [dbNotes[i] EXCEPT !.content = r.value]
               ELSE [dbNotes[i] EXCEPT !.type = r.value]]

\* the realtime events of the statement, behind those already on their way
EditEvents(r, b) ==
  LET hit == SelectSeq(dbNotes, LAMBDA row : EditMatches(r, row))
  IN noteInbox[b] \o
       [i \in 1..Len(hit) |->
          IF r.op = "delete"
          THEN [kind |-> "DELETE", row |-> hit[i]]
          ELSE [kind |-> "UPDATE",
                row |-> IF r.op = "content"
                        THEN [hit[i] EXCEPT !.content = r.value]
                        ELSE [hit[i] EXCEPT !.type = r.value]]]

\* the store applies the statement, or the call fails. An update that
\* changes no row makes .select().single() report an error; a delete that
\* removes no row reports none. Likes of a removed note go with it.
EditApply(r) ==
  /\ r \in editReq
  /\ r.st = "sent"
  /\ LET done(st, msg) == (editReq \ {r}) \cup
                            {[r EXCEPT !.st = st, !.err = msg]}
         matched == \E i \in 1..Len(dbNotes) : EditMatches(r, dbNotes[i])
     IN \/ /\ editReq' = done("err", ErrNetwork)
           /\ UNCHANGED <<dbNotes, dbLikes, noteInbox>>
        \/ /\ matched
           /\ dbNotes' = EditedRows(r)
           /\ dbLikes' = IF r.op = "delete"
                         THEN {l \in dbLikes : l[1] # r.note}
                         ELSE dbLikes
           /\ noteInbox' = [b \in Boards |->
                              IF Loaded(b) THEN EditEvents(r, b)
                              ELSE noteInbox[b]]
           /\ editReq' = done("ok", "")
        \/ /\ ~matched
           /\ editReq' = IF r.op = "delete" THEN done("ok", "")
                         ELSE done("err", ErrNoRows)
           /\ UNCHANGED <<dbNotes, dbLikes, noteInbox>>
  /\ UNCHANGED <<noteSeq, notes, callSeq, addReq, insertEvents, alerts>>
  /\ UNCHANGED <<realtimeFix, edits, alertSeen, redelivered>>
  /\ UNCHANGED <<expiryVars, likeVars, typingVars, columnVars, channelVars>>

\* after the durable call: on an error the rollback, then the alert (the
\* alert is called with the rollback already queued); nothing on success
EditReturn(r) ==
  /\ r \in editReq
  /\ r.st \in {"ok", "err"}
  /\ editReq' = editReq \ {r}
  /\ IF r.st = "err"
     THEN LET restored == Rollback(notes[r.client], r.op, r.note, r.original)
          IN /\ notes' = [notes EXCEPT ![r.client] = restored]
             /\ alertSeen' = [alertSeen EXCEPT ![r.client] =
                                [call |-> r.call, list |-> restored]]
             /\ alerts' = [alerts EXCEPT ![r.client] =
                             @ \cup {IF IncludesActive(r.err)
                                     THEN EndedAlert(r.op)
                                     ELSE FailedAlert(r.op)}]
     ELSE UNCHANGED <<notes, alertSeen, alerts>>
  /\ UNCHANGED <<dbNotes, noteSeq, dbLikes, callSeq, addReq, insertEvents>>
  /\ UNCHANGED <<realtimeFix, edits, noteInbox, redelivered>>
  /\ UNCHANGED <<expiryVars, likeVars, typingVars, columnVars, channelVars>>

\* the notes UPDATE handler: fetchNoteWithLikes(payload.new), then the note
\* of that id is replaced
NoteUpdated(c) ==
  /\ noteInbox[c] # <<>>
  /\ Head(noteInbox[c]).kind = "UPDATE"
  /\ noteInbox' = [noteInbox EXCEPT ![c] = Tail(@)]
  /\ LET row == Head(noteInbox[c]).row
     IN notes' = [notes EXCEPT ![c] =
                    ReplaceNote(@, row.id, NoteWithLikes(row, UserOf(c)))]
  /\ UNCHANGED <<dbNotes, noteSeq, dbLikes, callSeq, addReq, insertEvents,
                 alerts>>
  /\ UNCHANGED <<realtimeFix, edits, editReq, alertSeen, redelivered>>
  /\ UNCHANGED <<expiryVars, likeVars, typingVars, columnVars, channelVars>>

\* the notes DELETE handler: the note of payload.old.id is filtered out if
\* the list holds it, otherwise the list stays
NoteDeleted(c) ==
  /\ noteInbox[c] # <<>>
  /\ Head(noteInbox[c]).kind = "DELETE"
  /\ noteInbox' = [noteInbox EXCEPT ![c] = Tail(@)]
  /\ LET id == Head(noteInbox[c]).row.id
     IN notes' = [notes EXCEPT ![c] =
                    IF HasId(@, id) THEN SeqFilterOut(@, id) ELSE @]
  /\ UNCHANGED <<dbNotes, noteSeq, dbLikes, callSeq, addReq, insertEvents,
                 alerts>>
  /\ UNCHANGED <<realtimeFix, edits, editReq, alertSeen, redelivered>>
  /\ UNCHANGED <<expiryVars, likeVars, typingVars, columnVars, channelVars>>

\* the host and the guest edit, move and delete the note of an active board
NextEdits ==
  \/ \E c \in NoteBoards : FetchMeeting(c)
  \/ \E c \in NoteBoards : \E id \in 1..noteSeq : \E content \in Contents :
       UpdateNote(c, id, content)
  \/ \E c \in NoteBoards : \E id \in 1..noteSeq : \E type \in Sections :
       UpdateNoteType(c, id, type)
  \/ \E c \in NoteBoards : \E id \in 1..noteSeq : DeleteNote(c, id)
  \/ \E r \in editReq : EditApply(r)
  \/ \E r \in editReq : EditReturn(r)
  \/ \E c \in NoteBoards : NoteUpdated(c)
  \/ \E c \in NoteBoards : NoteDeleted(c)

SpecEdits == InitLikes /\ [][NextEdits]_vars

\* ------------------------------------------------------------------------
\* A session: notes are added, liked, edited, moved and deleted, one call
\* after the other, while the host may end the meeting
\* ------------------------------------------------------------------------
\* no call of a view is being processed and no event is on its way
Quiet ==
  /\ addReq = {} /\ likeReq = {} /\ editReq = {} /\ refreshes = {}
  /\ \A c \in Boards :
       insertEvents[c] = {} /\ likeInbox[c] = <<>> /\ noteInbox[c] = <<>>

\* add, like and edit calls share the budget of a run
OpsLeft == Quiet /\ callSeq + likeSeq + EditsMade < MaxEdits

NextSession ==
  \/ \E c \in NoteBoards : FetchMeeting(c)
  \/ HandleEndMeetingConfirm("b1")
  \/ EndMeetingApply("b1")
  \/ EndMeetingReturn("b1")
  \/ \E c \in NoteBoards : \E content \in Contents : \E type \in NoteTypes :
       OpsLeft /\ AddNote(c, content, type)
  \/ \E r \in addReq : InsertNoteApply(r)
  \/ \E r \in addReq : AddNoteReturn(r)
  \/ \E c \in NoteBoards : \E row \in insertEvents[c] : NoteInserted(c, row)
  \/ \E c \in NoteBoards : \E id \in 1..noteSeq :
       OpsLeft /\ ToggleNoteLike(c, id)
  \/ \E r \in likeReq : LikeApply(r)
  \/ \E r \in likeReq : LikeReturn(r)
  \/ \E r \in likeReq : ClearProcessing(r)
  \/ \E f \in refreshes : RefreshTimer(f)
  \/ \E f \in refreshes : RefreshQuery(f)
  \/ \E f \in refreshes : RefreshApply(f)
  \/ \E c \in NoteBoards : LikeChanged(c)
  \/ \E c \in NoteBoards : LikeBroadcast(c)
  \/ \E c \in NoteBoards : \E id \in 1..noteSeq : \E content \in Contents :
       OpsLeft /\ UpdateNote(c, id, content)
  \/ \E c \in NoteBoards : \E id \in 1..noteSeq : \E type \in Sections :
       OpsLeft /\ UpdateNoteType(c, id, type)
  \/ \E c \in NoteBoards : \E id \in 1..noteSeq : OpsLeft /\ DeleteNote(c, id)
  \/ \E r \in editReq : EditApply(r)
  \/ \E r \in editReq : EditReturn(r)
  \/ \E c \in NoteBoards : NoteUpdated(c)
  \/ \E c \in NoteBoards : NoteDeleted(c)

SpecSession == InitSession /\ [][NextSession]_vars

\* ------------------------------------------------------------------------
\* Claims about the guards of an ended board
\* ------------------------------------------------------------------------
EndedAlerts ==
  {"add_ended", "edit_ended", "move_ended", "delete_ended", "like_ended"}

\* the step issues no durable write and changes neither a list nor the store
NothingWritten ==
  /\ notes' = notes
  /\ addReq' = addReq /\ editReq' = editReq /\ likeReq' = likeReq
  /\ dbNotes' = dbNotes /\ dbLikes' = dbLikes

\* C12: a call of addNote, updateNote, updateNoteType, deleteNote or
\* toggleNoteLike made by a view whose local status is ended issues no
\* durable write, leaves the local list (so the content of the edited note)
\* and the store as they are, and shows a message that the session has ended
C12_EndedViewWritesNothing ==
  [][/\ \A c \in Boards :
          (/\ meeting[c].status = "ended"
           /\ edits'[c] # edits[c] \/ toggles'[c] # toggles[c])
            => /\ NothingWritten
               /\ alerts'[c] \cap EndedAlerts # {}
               /\ alerts'[c] \ alerts[c] \subseteq EndedAlerts
     /\ callSeq' # callSeq
          => /\ \A r \in addReq' \ addReq : meeting[r.client].status # "ended"
             /\ addReq' = addReq
                  => /\ NothingWritten
                     /\ \E c \in Boards : /\ meeting[c].status = "ended"
                                          /\ "add_ended" \in alerts'[c]]_vars

\* the host has ended the meeting in the board view and then tried to edit
\* and to like the note there
C12_Witness ==
  /\ meeting["b1"].status = "ended"
  /\ edits["b1"] = 1 /\ toggles["b1"] = 1
  /\ {"edit_ended", "like_ended"} \subseteq alerts["b1"]
  /\ dbNotes = <<FirstNote>> /\ dbLikes = {}

\* ------------------------------------------------------------------------
\* Claims about a view that still shows an ended meeting as active
\* ------------------------------------------------------------------------
\* the calls whose durable statement the store processes in this step
AppliedNow ==
  {r \in addReq \cup editReq \cup likeReq :
     r.st = "sent" /\ r \notin (addReq' \cup editReq' \cup likeReq')}

\* the response the store gives to such a call
ResponseTo(r) ==
  CHOOSE q \in addReq' \cup editReq' \cup likeReq' :
    q.call = r.call /\ q.client = r.client /\ q.st # "sent"
      /\ (r \in addReq <=> q \in addReq') /\ (r \in editReq <=> q \in editReq')

\* the calls rejected by the store whose response the view handles now
RejectedNow ==
  {r \in addReq \cup editReq \cup likeReq :
     /\ r.st = "err" /\ r.err \in {ErrRls, ErrNoRows}
     /\ r \notin (addReq' \cup editReq' \cup likeReq')}

\* C13: when the stored status is ended and the view still shows active, a
\* create, update, move, delete or like is rejected by the store (the store
\* stays as it is and the call reports an error), the view rolls back to
\* the list before the attempt and shows the session-has-ended message,
\* not a generic failure
C13_StaleWriteRejectedAsEnded ==
  [][/\ \A r \in AppliedNow :
          (dbMeeting.status = "ended" /\ meeting[r.client].status = "active")
            => /\ dbNotes' = dbNotes /\ dbLikes' = dbLikes
               /\ ResponseTo(r).st = "err"
     /\ \A r \in RejectedNow :
          (dbMeeting.status = "ended" /\ meeting[r.client].status = "active")
            => /\ alerts'[r.client] \cap EndedAlerts # {}
               /\ alerts'[r.client] \ alerts[r.client] \subseteq EndedAlerts
               /\ r \in editReq
                    => \A i \in 1..Len(notes'[r.client]) :
                         notes'[r.client][i].id = r.note
                           => notes'[r.client][i] = r.original]_vars

\* C15: once the stored status is ended no note is created, changed or
\* removed and no like is created or removed in the store
C15_EndedStoreIsFrozen ==
  [][dbMeeting.status = "ended"
       => dbNotes' = dbNotes /\ dbLikes' = dbLikes]_vars

\* ------------------------------------------------------------------------
\* Claims about edits
\* ------------------------------------------------------------------------
\* the edit calls whose statement the store applies in this step
EditsAppliedNow == {r \in editReq : r.st = "sent" /\ r \notin editReq'}

\* the stored rows of an id
RowsWithId(rows, id) == {rows[i] : i \in {j \in 1..Len(rows) : rows[j].id = id}}

\* the stored content, or category, of a note that stays stored is changed
ContentChanged(id) ==
  \E old \in RowsWithId(dbNotes, id) : \E new \in RowsWithId(dbNotes', id) :
    old.content # new.content

TypeChanged(id) ==
  \E old \in RowsWithId(dbNotes, id) : \E new \in RowsWithId(dbNotes', id) :
    old.type # new.type

ByAuthor(r) ==
  \A row \in RowsWithId(dbNotes, r.note) : row.created_by = UserOf(r.client)

\* C14 as stated: stored content and category of a note are changed only
\* by a write of its author
C14_AuthorOnlyWrites ==
  [][\A id \in 1..noteSeq :
       (ContentChanged(id) \/ TypeChanged(id))
         => \E r \in EditsAppliedNow : r.note = id /\ ByAuthor(r)]_vars

\* C14: the stored content of a note is changed only by an updateNote call
\* of its author; the stored category only by an updateNoteType call, which
\* any participant of the board may make
C14_ContentByAuthorOnly ==
  [][\A id \in 1..noteSeq :
       /\ ContentChanged(id)
            => \E r \in EditsAppliedNow :
                 r.note = id /\ r.op = "content" /\ ByAuthor(r)
       /\ TypeChanged(id)
            => \E r \in EditsAppliedNow : r.note = id /\ r.op = "type"]_vars

\* the guest has tried to edit the host's note, which kept its content, and
\* has moved it to another column
C14_Witness ==
  /\ dbNotes = <<[FirstNote EXCEPT !.type = "mad"]>>
  /\ edits["b3"] = 2
  /\ "edit_failed" \in alerts["b3"]
  /\ \E r \in editReq : r.client = "b3" /\ r.op = "type" /\ r.st = "ok"

\* the failed updateNote and updateNoteType calls whose error is handled in
\* this step
UpdateFailsNow ==
  {r \in editReq : r.st = "err" /\ r.op # "delete" /\ r \notin editReq'}

DeleteSettlesNow ==
  {r \in editReq : /\ r.st \in {"ok", "err"} /\ r.op = "delete"
                   /\ r.original.created_by = UserOf(r.client)
                   /\ r \notin editReq'}

\* C17: when a deleteNote call settles and the store still holds the note,
\* the local list holds the note again, once, as it was before the delete
C17_DeleteRollback ==
  [][\A r \in DeleteSettlesNow :
       HasId(dbNotes, r.note)
         => /\ CountId(notes'[r.client], r.note) = 1
            /\ \A i \in 1..Len(notes'[r.client]) :
                 notes'[r.client][i].id = r.note
                   => notes'[r.client][i] = r.original]_vars

\* ------------------------------------------------------------------------
\* Claims about creating notes and about notifications
\* ------------------------------------------------------------------------
\* the list of the calling view holds a pending entry for the call
PendingEntry(list, r) ==
  \E i \in 1..Len(list) :
    /\ IsTemp(list[i].id)
    /\ list[i].content = r.content /\ list[i].type = r.type
    /\ list[i].created_by = UserOf(r.client)

\* C18: addNote on an active board puts a pending placeholder in the local
\* list before the insert completes; when the insert has succeeded and the
\* response is handled the list has the same number of entries, one of them
\* with the durable id and the content typed, and no placeholder of the call
C18_PlaceholderThenDurable ==
  [][/\ \A r \in addReq' \ addReq :
          r.st = "sent" => PendingEntry(notes'[r.client], r)
     /\ \A r \in addReq :
          (r.st = "ok" /\ r \notin addReq')
            => /\ Len(notes'[r.client]) = Len(notes[r.client])
               /\ CountId(notes'[r.client], r.row.id) = 1
               /\ ~HasId(notes'[r.client], r.temp)
               /\ \A i \in 1..Len(notes'[r.client]) :
                    notes'[r.client][i].id = r.row.id
                      => notes'[r.client][i].content = r.content]_vars

\* INSERT events delivered a further time in a run, over all views
MaxRedeliveries == 2

\* the realtime connection delivers the INSERT event of a stored note to a
\* subscribed view once more (after a reconnect, or duplicated)
RedeliverInsert(c, row) ==
  /\ Loaded(c)
  /\ redelivered["b1"] + redelivered["b2"] + redelivered["b3"]
       < MaxRedeliveries
  /\ \E i \in 1..Len(dbNotes) : dbNotes[i] = row
  /\ redelivered' = [redelivered EXCEPT ![c] = @ + 1]
  /\ insertEvents' = [insertEvents EXCEPT ![c] = @ \cup {row}]
  /\ UNCHANGED <<dbNotes, noteSeq, dbLikes, notes, callSeq, addReq, alerts>>
  /\ UNCHANGED <<realtimeFix, edits, editReq, noteInbox, alertSeen>>
  /\ UNCHANGED <<expiryVars, likeVars, typingVars, columnVars, channelVars>>

NextRedelivery ==
  \/ \E c \in NoteBoards : FetchMeeting(c)
  \/ \E c \in NoteBoards, content \in Contents, type \in NoteTypes :
       AddNote(c, content, type)
  \/ \E r \in addReq : InsertNoteApply(r)
  \/ \E r \in addReq : AddNoteReturn(r)
  \/ \E c \in NoteBoards : \E row \in insertEvents[c] : NoteInserted(c, row)
  \/ \E c \in NoteBoards : \E i \in 1..Len(dbNotes) :
       RedeliverInsert(c, dbNotes[i])

SpecRedelivery == Init /\ [][NextRedelivery]_vars

\* C19: whatever INSERT notifications a view has processed, duplicated and
\* re-delivered ones included, a stored note of another user is in its list
\* at most once, and exactly once when no notification for it is pending
C19_OthersNotesOnce ==
  \A c \in NoteBoards : \A i \in 1..Len(dbNotes) :
    (Loaded(c) /\ dbNotes[i].created_by # UserOf(c))
      => /\ CountId(notes[c], dbNotes[i].id) <= 1
         /\ dbNotes[i] \notin insertEvents[c]
              => CountId(notes[c], dbNotes[i].id) = 1

\* the guest's view has processed the INSERT event of the host's note and
\* two further deliveries of it
C19_Witness ==
  /\ redelivered["b3"] = 2
  /\ insertEvents["b3"] = {}
  /\ Len(dbNotes) = 1 /\ dbNotes[1].created_by = Owner
  /\ Len(notes["b3"]) = 1 /\ notes["b3"][1].id = dbNotes[1].id

\* the UPDATE or DELETE event a view handles in this step
HandledNow(c, kind) ==
  /\ noteInbox[c] # <<>>
  /\ Head(noteInbox[c]).kind = kind
  /\ noteInbox'[c] = Tail(noteInbox[c])

\* C20: handling an UPDATE event keeps the number of entries, replaces the
\* entries of the row's id by the row and leaves the others; handling a
\* DELETE event removes the entries of that id and leaves the others, so the
\* list stays the same when the id is not in it
C20_UpdateDeleteById ==
  [][\A c \in Boards :
       /\ HandledNow(c, "UPDATE")
            => LET row == Head(noteInbox[c]).row
               IN /\ Len(notes'[c]) = Len(notes[c])
                  /\ \A i \in 1..Len(notes[c]) :
                       IF notes[c][i].id = row.id
                       THEN /\ notes'[c][i].id = row.id
                            /\ notes'[c][i].content = row.content
                            /\ notes'[c][i].type = row.type
                            /\ notes'[c][i].created_by = row.created_by
                       ELSE notes'[c][i] = notes[c][i]
       /\ HandledNow(c, "DELETE")
            => LET id == Head(noteInbox[c]).row.id
               IN notes'[c] = SelectSeq(notes[c], LAMBDA n : n.id # id)]_vars

\* the host's view has removed the note optimistically (the delete is on
\* its way) and has then handled the UPDATE event of the guest's move: the
\* list is still empty
C20_Witness ==
  /\ notes["b1"] = <<>> /\ noteInbox["b1"] = <<>>
  /\ dbNotes = <<[FirstNote EXCEPT !.type = "mad"]>>
  /\ \E r \in editReq :
       /\ r.client = "b1" /\ r.op = "delete" /\ r.st = "sent"
       /\ r.original.type = "glad"
  /\ \E r \in editReq : r.client = "b3" /\ r.op = "type" /\ r.st = "ok"

\* ------------------------------------------------------------------------
\* Likes: two tabs of the same user
\* ------------------------------------------------------------------------
NextLikeTabs ==
  \/ \E c \in TabBoards : FetchMeeting(c)
  \/ \E c \in TabBoards : \E i \in 1..Len(notes[c]) :
       ToggleNoteLike(c, notes[c][i].id)
  \/ \E r \in likeReq : LikeApply(r)
  \/ \E r \in likeReq : LikeReturn(r)
  \/ \E r \in likeReq : ClearProcessing(r)
  \/ \E f \in refreshes : RefreshTimer(f)
  \/ \E f \in refreshes : RefreshQuery(f)
  \/ \E f \in refreshes : RefreshApply(f)
  \/ \E c \in TabBoards : LikeChanged(c)
  \/ \E c \in TabBoards : LikeBroadcast(c)

SpecLikeTabs == InitLikes /\ [][NextLikeTabs]_vars

\* the like calls that failed on a pair already stored and whose response
\* the view handles in this step
ConflictHandledNow ==
  {r \in likeReq :
     /\ ~r.initial
     /\ r.st \in {"dup", "err"} /\ r.err # ErrNetwork
     /\ <<r.note, UserOf(r.client)>> \in dbLikes
     /\ r \notin likeReq'}

\* C21: when the like call fails because the pair is already stored, the
\* note ends as liked by the user, the optimistic count is kept (not below
\* zero) and no alert is shown
C21_DuplicateLikeIsSuccess ==
  [][\A r \in ConflictHandledNow :
       /\ alerts'[r.client] = alerts[r.client]
       /\ \A i \in 1..Len(notes[r.client]) :
            notes[r.client][i].id = r.note
              => /\ notes'[r.client][i].user_liked
                 /\ notes'[r.client][i].like_count =
                      (IF notes[r.client][i].like_count < 0 THEN 0
                       ELSE notes[r.client][i].like_count)]_vars

\* the liked state a view shows for the note it toggles in this step
ToggledTo(c) ==
  {notes'[c][i].user_liked :
     i \in {j \in 1..Len(notes[c]) : notes'[c][j] # notes[c][j]}}

\* C22: every toggle a view of an active board makes sends one like_change
\* broadcast with the new liked state to the other subscribed views, in the
\* step of the toggle (before the durable call is processed), also when an
\* earlier toggle of the note is still being processed
C22_EveryToggleBroadcasts ==
  [][\A c \in Boards :
       (/\ toggles'[c] # toggles[c]
        /\ meeting[c].status = "active"
        /\ notes'[c] # notes[c])
         => \A b \in Boards \ {c} :
              Loaded(b)
                => /\ Len(likeInbox'[b]) = Len(likeInbox[b]) + 1
                   /\ likeInbox'[b][Len(likeInbox'[b])].kind = "like_change"
                   /\ likeInbox'[b][Len(likeInbox'[b])].liked \in ToggledTo(c)]_vars

\* ------------------------------------------------------------------------
\* Expiry check: when it runs, what it achieves, when it writes
\* ------------------------------------------------------------------------
\* the host's view, the guest's view and the host's dashboard while the
\* board expires; nobody ends it by hand
NextExpiryCheck ==
  \/ Tick
  \/ \E c \in CheckBoards : FetchMeeting(c)
  \/ \E c \in CheckBoards : CheckMeetingExpiration(c)
  \/ \E c \in CheckBoards : ExpirationUpdateApply(c)
  \/ \E c \in CheckBoards : ExpirationUpdateReturn(c)
  \/ \E d \in Dashboards : DashMeetingUpdated(d)
  \/ \E d \in Dashboards : SweepSelect(d)
  \/ \E d \in Dashboards : SweepUpdateApply(d)

SpecExpiryCheck == Init /\ [][NextExpiryCheck]_vars

\* C24: a view that loads an active board already past its two hours runs
\* the expiry check on load: the step that loads the board issues the
\* expiry write, before any tick of the interval
C24_ExpiryCheckOnLoad ==
  [][\A c \in Boards :
       (meeting[c].status = "none" /\ meeting'[c].status = "active"
        /\ BoardExpired(now))
         => expReq'[c].st = "sent"]_vars

\* C25: when the store handles the expiry write of any view, of the owner or
\* not, for a board past its budget that is stored as active, the stored
\* status becomes ended with ended_by = null
C25_AnyClientEndsExpiredBoard ==
  [][\A c \in Boards :
       (expReq[c].st = "sent" /\ expReq'[c].st = "replied"
        /\ dbMeeting.status = "active" /\ BoardExpired(now))
         => /\ dbMeeting'.status = "ended"
            /\ dbMeeting'.ended_by = NullUser]_vars

\* the expiry write of the view came back with no row and the view has
\* handled the response (a returned row would have ended the local meeting)
ZeroRowsSettled(c) ==
  expReq[c].st = "settled" /\ meeting[c].status = "active"

\* C26: a view whose expiry write affected no row shows no error and does
\* not issue the expiry write again
C26_ZeroRowsIsFinal ==
  [][\A c \in Boards :
       /\ (expReq[c].st = "replied" /\ RowsOf(expReq[c]) = 0
           /\ expReq'[c].st = "settled")
            => alerts'[c] = alerts[c]
       /\ ZeroRowsSettled(c) => expReq'[c].st # "sent"]_vars

\* C30: neither checkMeetingExpiration nor checkExpiredMeetings issues the
\* automatic ending write (ended_by = null) while now is earlier than
\* created_at + 2 hours
C30_NoAutoEndBeforeBudget ==
  [][/\ \A c \in Boards :
          (expReq'[c] # expReq[c] /\ expReq'[c].st = "sent")
            => /\ now >= CreatedAt + TwoHours
               /\ expReq'[c].row.ended_by = NullUser
      /\ \A d \in Dashboards :
          (sweepReq'[d] # sweepReq[d] /\ sweepReq'[d].st = "sent")
            => /\ now >= CreatedAt + TwoHours
               /\ sweepReq'[d].row.ended_by = NullUser]_vars

\* the board view has issued the ending write at the very moment the budget
\* elapsed, and the dashboard has issued one as well
C30_Witness ==
  /\ \E c \in Boards :
       expReq[c].st = "sent" /\ expReq[c].row.ended_at = CreatedAt + TwoHours
  /\ \E d \in Dashboards : sweepReq[d].st = "sent"

\* ------------------------------------------------------------------------
\* NoteColumn: typing signals of the note being edited
\* ------------------------------------------------------------------------
ColumnBoards == {"b1", "b3"}

\* clearTimeout of the pending idle timer, then setTimeout(..., 1000)
IdleDeadline_keepsPending(pending, t) ==
  IF pending # NullTime THEN pending ELSE t + TypingIdle
IdleDeadline(pending, t) == t + TypingIdle

\* handleNoteClick: the author opens the edit field of a note, unless the
\* column is disabled
HandleNoteClick(c, id) ==
  /\ Loaded(c)
  /\ HasId(notes[c], id)
  /\ FindNote(notes[c], id).created_by = UserOf(c)
  /\ editingNote[c] # id
  /\ ~MeetingEnded(c)
  /\ editingNote' = [editingNote EXCEPT ![c] = id]
  /\ UNCHANGED <<columnTimeoutRef, submitting>>
  /\ UNCHANGED <<expiryVars, noteVars, likeVars, typingVars, editVars,
                 channelVars>>

\* handleEditContentChange: setEditContent, then handleTypingStart, which
\* calls onTypingStart and sets the idle timer of the note anew
HandleEditContentChange(c, n) ==
  /\ editingNote[c] = n
  /\ BroadcastTyping(c, n, TRUE)
  /\ columnTimeoutRef' = [columnTimeoutRef EXCEPT ![c][n] =
                            IdleDeadline(@, clock)]
  /\ UNCHANGED <<editingNote, submitting>>
  /\ UNCHANGED <<clock, typingIndicators, typingTimeoutRef>>
  /\ UNCHANGED <<expiryVars, noteVars, likeVars, editVars, channelVars>>

\* handleTypingStop: onTypingStop, then the idle timer of the note is cleared
HandleTypingStop(c, n) ==
  /\ BroadcastTyping(c, n, FALSE)
  /\ columnTimeoutRef' = [columnTimeoutRef EXCEPT ![c][n] = NullTime]

\* the callback of the idle timer: onTypingStop, then the entry is deleted
IdleTimeout(c, n) ==
  /\ columnTimeoutRef[c][n] # NullTime
  /\ columnTimeoutRef[c][n] <= clock
  /\ BroadcastTyping(c, n, FALSE)
  /\ columnTimeoutRef' = [columnTimeoutRef EXCEPT ![c][n] = NullTime]
  /\ UNCHANGED <<editingNote, submitting>>
  /\ UNCHANGED <<clock, typingIndicators, typingTimeoutRef>>
  /\ UNCHANGED <<expiryVars, noteVars, likeVars, editVars, channelVars>>

\* handleCancelEdit
HandleCancelEdit(c) ==
  /\ editingNote[c] # 0
  /\ HandleTypingStop(c, editingNote[c])
  /\ editingNote' = [editingNote EXCEPT ![c] = 0]
  /\ UNCHANGED submitting
  /\ UNCHANGED <<clock, typingIndicators, typingTimeoutRef>>
  /\ UNCHANGED <<expiryVars, noteVars, likeVars, editVars, channelVars>>

\* handleUpdateNote up to its await: with a note being edited, a content
\* that is not blank, no submission under way and the column not disabled,
\* onUpdateNote (updateNote) is called
HandleUpdateNote(c, content) ==
  /\ editingNote[c] # 0
  /\ submitting[c] = 0
  /\ ~MeetingEnded(c)
  /\ EditNote(c, "content", editingNote[c], content)
  /\ submitting' = [submitting EXCEPT ![c] = editingNote[c]]
  /\ UNCHANGED <<editingNote, columnTimeoutRef>>

\* updateNote has returned
UpdateNoteDone(c) ==
  ~\E r \in editReq : r.client = c /\ r.op = "content"

\* handleUpdateNote after the await: handleTypingStop for the note that was
\* submitted, the edit field is closed, isSubmitting is reset
HandleUpdateNoteResume(c) ==
  /\ submitting[c] # 0
  /\ UpdateNoteDone(c)
  /\ HandleTypingStop(c, submitting[c])
  /\ editingNote' = [editingNote EXCEPT ![c] = 0]
  /\ submitting' = [submitting EXCEPT ![c] = 0]
  /\ UNCHANGED <<clock, typingIndicators, typingTimeoutRef>>
  /\ UNCHANGED <<expiryVars, noteVars, likeVars, editVars, channelVars>>

\* the author edits the note while the guest's view shows the indicator
NextColumn ==
  \/ \E c \in ColumnBoards : FetchMeeting(c)
  \/ ClockTick
  \/ \E c \in ColumnBoards, n \in TypingNotes : HandleNoteClick(c, n)
  \/ \E c \in ColumnBoards, n \in TypingNotes : HandleEditContentChange(c, n)
  \/ \E c \in ColumnBoards, n \in TypingNotes : IdleTimeout(c, n)
  \/ \E c \in ColumnBoards : HandleCancelEdit(c)
  \/ \E c \in ColumnBoards, content \in Contents : HandleUpdateNote(c, content)
  \/ \E r \in editReq : EditApply(r)
  \/ \E r \in editReq : EditReturn(r)
  \/ \E c \in ColumnBoards : HandleUpdateNoteResume(c)
  \/ \E c \in ColumnBoards : NoteUpdated(c)
  \/ \E c \in ColumnBoards : TypingReceived(c)
  \/ \E c \in ColumnBoards, n \in TypingNotes : TypingTimeout(c, n)

SpecColumn == InitLikes /\ [][NextColumn]_vars

\* the views other than c that are subscribed received, as the last
\* message, the typing broadcast of c for note n
PeersReceived(c, n, isTyping) ==
  \A b \in Boards \ {c} :
    Loaded(b) =>
      /\ Len(typingInbox'[b]) = Len(typingInbox[b]) + 1
      /\ typingInbox'[b][Len(typingInbox'[b])] =
           [noteId |-> n, userId |-> UserOf(c), isTyping |-> isTyping]

\* C23: each keystroke in the edit field of a note sends a typing signal
\* for the note and sets its idle timer to one second from then; when the
\* timer fires, which is one second after the last keystroke, exactly one
\* stopped signal is sent and the timer is gone; submitting or cancelling
\* the edit sends a stopped signal and leaves no timer pending
C23_SenderTypingSignals ==
  [][/\ typingSent'.starts # typingSent.starts
          => /\ typingSent'.starts = typingSent.starts + 1
             /\ typingSent'.stops = typingSent.stops
             /\ \E c \in Boards, n \in TypingNotes :
                  /\ editingNote[c] = n
                  /\ columnTimeoutRef'[c][n] = clock + TypingIdle
                  /\ PeersReceived(c, n, TRUE)
      /\ \A c \in Boards, n \in TypingNotes :
           /\ (/\ columnTimeoutRef[c][n] # NullTime
               /\ columnTimeoutRef'[c][n] = NullTime
               /\ editingNote'[c] = editingNote[c]
               /\ submitting'[c] = submitting[c])
                => /\ clock = columnTimeoutRef[c][n]
                   /\ typingSent'.stops = typingSent.stops + 1
                   /\ typingSent'.starts = typingSent.starts
                   /\ PeersReceived(c, n, FALSE)
           /\ (editingNote[c] = n /\ editingNote'[c] = 0)
                => /\ typingSent'.stops = typingSent.stops + 1
                   /\ columnTimeoutRef'[c][n] = NullTime
                   /\ PeersReceived(c, n, FALSE)]_vars

\* two keystrokes at different times, then the idle timer has fired once:
\* the note is still being edited and no timer is pending
C23_Witness ==
  /\ typingSent = [starts |-> 2, stops |-> 1]
  /\ editingNote["b1"] = 1
  /\ columnTimeoutRef["b1"][1] = NullTime
  /\ clock = 2

\* the edit was submitted after a keystroke and has been closed: one
\* stopped signal was sent and no timer is pending
C23_SubmitWitness ==
  /\ typingSent = [starts |-> 1, stops |-> 1]
  /\ edits["b1"] = 1
  /\ editingNote["b1"] = 0
  /\ submitting["b1"] = 0
  /\ columnTimeoutRef["b1"][1] = NullTime

\* ------------------------------------------------------------------------
\* MeetingBoard: the channel of subscribeToNotes, presence, unmount
\* ------------------------------------------------------------------------
\* the join of the channel succeeds and the status callback is called with
\* SUBSCRIBED; a channel.track call made before the join is pushed with it,
\* and the server tracks the view under the key user.id
ChannelSubscribed(c) ==
  /\ Loaded(c)
  /\ ~joined[c]
  /\ ~resubscribeTimer[c]
  /\ joined' = [joined EXCEPT ![c] = TRUE]
  /\ realTimeStatus' = [realTimeStatus EXCEPT ![c] = "connected"]
  /\ presence' = IF trackQueued[c] THEN presence \cup {c} ELSE presence
  /\ trackQueued' = [trackQueued EXCEPT ![c] = FALSE]
  /\ UNCHANGED <<mounted, expirationInterval, resubscribeTimer,
                 activeParticipants, liveParticipants, presenceState>>
  /\ UNCHANGED <<expiryVars, noteVars, likeVars, typingVars, editVars,
                 columnVars>>

\* the transport of a joined channel fails: the server drops the presence
\* of the connection; the status callback is called with CHANNEL_ERROR and
\* sets the timer of the resubscription
ChannelError(c) ==
  /\ Loaded(c)
  /\ joined[c]
  /\ joined' = [joined EXCEPT ![c] = FALSE]
  /\ presence' = presence \ {c}
  /\ realTimeStatus' = [realTimeStatus EXCEPT ![c] = "disconnected"]
  /\ resubscribeTimer' = [resubscribeTimer EXCEPT ![c] = TRUE]
  /\ UNCHANGED <<mounted, expirationInterval, activeParticipants,
                 liveParticipants, trackQueued, presenceState>>
  /\ UNCHANGED <<expiryVars, noteVars, likeVars, typingVars, editVars,
                 columnVars>>

\* the callback of that timer: channel.subscribe(), then
\* setRealTimeStatus('connecting')
ResubscribeTimer(c) ==
  /\ resubscribeTimer[c]
  /\ resubscribeTimer' = [resubscribeTimer EXCEPT ![c] = FALSE]
  /\ realTimeStatus' = [realTimeStatus EXCEPT ![c] =
                          IF mounted[c] THEN "connecting" ELSE @]
  /\ UNCHANGED <<mounted, expirationInterval, activeParticipants,
                 liveParticipants, presenceVars>>
  /\ UNCHANGED <<expiryVars, noteVars, likeVars, typingVars, editVars,
                 columnVars>>

\* Object.keys(presenceState): one key for each user (presence key user.id)
PresenceKeys(snap) == {UserOf(v) : v \in snap}

RECURSIVE Presences(_)
\* the presences of the snapshot in the order of the two forEach loops;
\* each carries the user_id that its view gave to channel.track
Presences(snap) ==
  IF snap = {} THEN <<>>
  ELSE LET v == CHOOSE w \in snap : TRUE
       IN <<[user_id |-> UserOf(v)]>> \o Presences(snap \ {v})

\* if (presence.user_id && !liveUserIds.includes(presence.user_id)) push
PushUserId_always(ids, id) == Append(ids, id)
PushUserId(ids, id) ==
  IF \E i \in 1..Len(ids) : ids[i] = id THEN ids ELSE Append(ids, id)

RECURSIVE LiveUserIds(_, _)
\* liveUserIds after the loops over the presences
LiveUserIds(list, ids) ==
  IF list = <<>> THEN ids
  ELSE LiveUserIds(Tail(list), PushUserId(ids, Head(list).user_id))

\* the presence state of the server reaches the view and the sync handler
\* runs over channel.presenceState()
PresenceSync(c) ==
  /\ Loaded(c)
  /\ joined[c]
  /\ presenceState[c] # presence
  /\ presenceState' = [presenceState EXCEPT ![c] = presence]
  /\ activeParticipants' = [activeParticipants EXCEPT ![c] =
                              Cardinality(PresenceKeys(presence))]
  /\ liveParticipants' = [liveParticipants EXCEPT ![c] =
                            LiveUserIds(Presences(presence), <<>>)]
  /\ UNCHANGED <<mounted, expirationInterval, realTimeStatus,
                 resubscribeTimer, joined, trackQueued, presence>>
  /\ UNCHANGED <<expiryVars, noteVars, likeVars, typingVars, editVars,
                 columnVars>>

\* Object.values(typingTimeoutRef.current).forEach(clearTimeout)
ClearedTimeouts_none(ref, c) == ref
ClearedTimeouts(ref, c) == [ref EXCEPT ![c] = [n \in TypingNotes |-> NullTime]]

\* the board view is unmounted: the cleanup of the [meeting] effect removes
\* the channels (what was on its way to the view is lost, the server drops
\* its presence) and clears the interval; the cleanup of the [] effect
\* clears the typing timeouts, that of NoteColumn its idle timers
Unmount(c) ==
  /\ Loaded(c)
  /\ mounted' = [mounted EXCEPT ![c] = FALSE]
  /\ joined' = [joined EXCEPT ![c] = FALSE]
  /\ presence' = presence \ {c}
  /\ insertEvents' = [insertEvents EXCEPT ![c] = {}]
  /\ likeInbox' = [likeInbox EXCEPT ![c] = <<>>]
  /\ noteInbox' = [noteInbox EXCEPT ![c] = <<>>]
  /\ typingInbox' = [typingInbox EXCEPT ![c] = <<>>]
  /\ expirationInterval' = [expirationInterval EXCEPT ![c] = FALSE]
  /\ typingTimeoutRef' = ClearedTimeouts(typingTimeoutRef, c)
  /\ columnTimeoutRef' = ClearedTimeouts(columnTimeoutRef, c)
  /\ UNCHANGED <<realTimeStatus, resubscribeTimer, activeParticipants,
                 liveParticipants, trackQueued, presenceState>>
  /\ UNCHANGED <<editingNote, submitting>>
  /\ UNCHANGED <<clock, typingIndicators, typingSent>>
  /\ UNCHANGED <<realtimeFix, edits, editReq, alertSeen, redelivered>>
  /\ UNCHANGED <<subscribedNotes, likingNotes, likeSeq, toggles, overlapped,
                 likeReq, refreshes>>
  /\ UNCHANGED <<dbNotes, noteSeq, dbLikes, notes, callSeq, addReq, alerts>>
  /\ UNCHANGED expiryVars

\* two tabs of the host and the guest's view join, lose their connection,
\* join again and are closed
NextPresence ==
  \/ \E c \in Boards : FetchMeeting(c)
  \/ \E c \in Boards : ChannelSubscribed(c)
  \/ \E c \in Boards : ChannelError(c)
  \/ \E c \in Boards : ResubscribeTimer(c)
  \/ \E c \in Boards : PresenceSync(c)
  \/ \E c \in Boards : Unmount(c)

SpecPresence == InitLikes /\ [][NextPresence]_vars

\* the elements of a list
Elements(list) == {list[i] : i \in 1..Len(list)}

\* C27: after every presence sync the live participant ids of the view are
\* exactly the distinct user ids of the snapshot it received, each once,
\* and the live count equals the number of live participant ids
C27_LiveParticipantsAreSnapshot ==
  [][\A c \in Boards :
       (presenceState'[c] # presenceState[c] /\ joined'[c])
         => /\ Elements(liveParticipants'[c]) =
                 {UserOf(v) : v \in presenceState'[c]}
            /\ Cardinality(Elements(liveParticipants'[c])) =
                 Len(liveParticipants'[c])
            /\ activeParticipants'[c] = Len(liveParticipants'[c])]_vars

\* the guest's view has received the snapshot with both tabs of the host
\* and itself: two participants; the host's first tab has received a later
\* snapshot, in which only the guest is left
C27_Witness ==
  /\ presenceState["b3"] = {"b1", "b2", "b3"}
  /\ Elements(liveParticipants["b3"]) = {Owner, Guest}
  /\ Len(liveParticipants["b3"]) = 2
  /\ activeParticipants["b3"] = 2
  /\ presenceState["b1"] = {"b3"}
  /\ liveParticipants["b1"] = <<Guest>>
  /\ activeParticipants["b1"] = 1

\* C28: whenever the channel of a view becomes joined, after a
\* CHANNEL_ERROR as well as the first time, the view's presence is
\* announced and the server tracks the view again
C28_PresenceAfterResubscription ==
  [][\A c \in Boards :
       (~joined[c] /\ joined'[c]) => c \in presence']_vars

\* the host's and the guest's views on a board that expires: the interval,
\* the host's typing broadcasts and their timeouts at the guest's view, and
\* the views being closed
CloseBoards == {"b1", "b3"}

NextClose ==
  \/ Tick
  \/ ClockTick
  \/ \E c \in CloseBoards : FetchMeeting(c)
  \/ \E c \in CloseBoards : ChannelSubscribed(c)
  \/ \E c \in CloseBoards : CheckMeetingExpiration(c)
  \/ \E c \in CloseBoards : ExpirationUpdateApply(c)
  \/ \E c \in CloseBoards : ExpirationUpdateReturn(c)
  \/ \E n \in TypingNotes : BroadcastTypingStart("b1", n)
  \/ \E c \in CloseBoards : TypingReceived(c)
  \/ \E c \in CloseBoards, n \in TypingNotes : TypingTimeout(c, n)
  \/ \E c \in CloseBoards : Unmount(c)

SpecClose == InitLikes /\ [][NextClose]_vars

Peer == "u3"

\* broadcastTypingStart or broadcastTypingStop in the view of that
\* participant: the typing broadcast reaches every subscribed view
PeerTyping(n, isTyping) ==
  /\ typingSent.starts + typingSent.stops < MaxSignals
  /\ typingSent' = IF isTyping THEN [typingSent EXCEPT !.starts = @ + 1]
                   ELSE [typingSent EXCEPT !.stops = @ + 1]
  /\ typingInbox' =
       [b \in Boards |->
          IF Loaded(b)
          THEN Append(typingInbox[b],
                      [noteId |-> n, userId |-> Peer, isTyping |-> isTyping])
          ELSE typingInbox[b]]
  /\ UNCHANGED <<clock, typingIndicators, typingTimeoutRef>>
  /\ UNCHANGED <<expiryVars, noteVars, likeVars, editVars, columnVars,
                 channelVars>>

\* the guest and the further participant type on the note that the host's
\* view shows
NextTypingPeers ==
  \/ \E c \in LikeBoards : FetchMeeting(c)
  \/ ClockTick
  \/ \E n \in TypingNotes : BroadcastTypingStart("b3", n)
  \/ \E n \in TypingNotes : BroadcastTypingStop("b3", n)
  \/ \E n \in TypingNotes, isTyping \in BOOLEAN : PeerTyping(n, isTyping)
  \/ \E c \in LikeBoards : TypingReceived(c)
  \/ \E c \in LikeBoards, n \in TypingNotes : TypingTimeout(c, n)

SpecTypingPeers == InitLikes /\ [][NextTypingPeers]_vars

\* C31: when a view handles the stopped signal of one user for a note while
\* it shows the indicator of another user on that note, that indicator
\* stays
C31_IndicatorPerUser ==
  [][\A c \in Boards :
       (/\ typingInbox[c] # <<>>
        /\ typingInbox'[c] = Tail(typingInbox[c])
        /\ ~Head(typingInbox[c]).isTyping
        /\ Shown(c, Head(typingInbox[c]).noteId)
        /\ typingIndicators[c][Head(typingInbox[c]).noteId].userId
             # Head(typingInbox[c]).userId)
         => typingIndicators'[c][Head(typingInbox[c]).noteId] =
              typingIndicators[c][Head(typingInbox[c]).noteId]]_vars

\* ------------------------------------------------------------------------
\* Likes: failed calls and the visible count
\* ------------------------------------------------------------------------
\* the toggle calls whose failure, other than a duplicate key, is handled
\* in this step
FailureHandledNow ==
  {r \in likeReq : r.st = "err" /\ r \notin likeReq'}

\* C32: when the failure of the durable call of a toggle is handled, the
\* note's liked flag and like count in the view are those it had before
\* that toggle, whatever further toggles were made meanwhile
C32_FailedToggleRestored ==
  [][\A r \in FailureHandledNow :
       \A i \in 1..Len(notes'[r.client]) :
         notes'[r.client][i].id = r.note
           => /\ notes'[r.client][i].user_liked = r.captured.user_liked
              /\ notes'[r.client][i].like_count = r.captured.like_count]_vars

\* C38: the like count that a view shows for a note is never negative
C38_LikeCountNotNegative ==
  \A c \in Boards : \A i \in 1..Len(notes[c]) : notes[c][i].like_count >= 0

\* ------------------------------------------------------------------------
\* MeetingBoard.tsx, subscribeToNotes: changes made on another board
\* ------------------------------------------------------------------------
\* events that may wait in the inboxes of a view when another is sent
MaxPending == 2

\* a note of another board, created there by another user; ids are
\* gen_random_uuid(), so the id is that of no note of this board
OtherNote == [id |-> 0, content |-> "z", type |-> "mad", created_by |-> Peer]

\* whether a change of that kind on another board reaches the handlers of
\* this board's channel: INSERT and UPDATE of notes are subscribed with
\* filter meeting_id=eq.<meeting.id>, like_change is a broadcast on the
\* channel meeting:<meeting.id>; DELETE of notes and the changes of
\* note_likes are subscribed without a filter
Delivered_all(kind) == TRUE
Delivered(kind) == kind \in {"DELETE", "note_likes"}

\* a user of another board inserts, updates or deletes a note there, or
\* likes one
OtherBoardChange(kind) ==
  /\ \A b \in Boards : Len(noteInbox[b]) + Len(likeInbox[b]) < MaxPending
  /\ insertEvents' =
       [b \in Boards |->
          IF Loaded(b) /\ kind = "INSERT" /\ Delivered(kind)
          THEN insertEvents[b] \cup {OtherNote} ELSE insertEvents[b]]
  /\ noteInbox' =
       [b \in Boards |->
          IF Loaded(b) /\ kind \in {"UPDATE", "DELETE"} /\ Delivered(kind)
          THEN Append(noteInbox[b], [kind |-> kind, row |-> OtherNote])
          ELSE noteInbox[b]]
  /\ likeInbox' =
       [b \in Boards |->
          IF Loaded(b) /\ kind \in {"note_likes", "like_change"}
                       /\ Delivered(kind)
          THEN Append(likeInbox[b],
                      [kind |-> kind, call |-> 0, note |-> OtherNote.id,
                       user |-> Peer, liked |-> TRUE])
          ELSE likeInbox[b]]
  /\ UNCHANGED <<dbNotes, noteSeq, dbLikes, notes, callSeq, addReq, alerts>>
  /\ UNCHANGED <<subscribedNotes, likingNotes, likeSeq, toggles, overlapped,
                 likeReq, refreshes>>
  /\ UNCHANGED <<realtimeFix, edits, editReq, alertSeen, redelivered>>
  /\ UNCHANGED <<expiryVars, typingVars, columnVars, channelVars>>

\* the host and the guest view a board on which the guest adds notes, while
\* another board changes
NextOtherBoard ==
  \/ \E c \in LikeBoards : FetchMeeting(c)
  \/ \E kind \in {"INSERT", "UPDATE", "DELETE", "note_likes", "like_change"} :
       OtherBoardChange(kind)
  \/ AddNote("b3", "y", "glad")
  \/ \E r \in addReq : InsertNoteApply(r)
  \/ \E r \in addReq : AddNoteReturn(r)
  \/ \E c \in LikeBoards : \E row \in insertEvents[c] : NoteInserted(c, row)
  \/ \E c \in LikeBoards : NoteDeleted(c)
  \/ \E c \in LikeBoards : LikeChanged(c)

SpecOtherBoard == InitLikes /\ [][NextOtherBoard]_vars

\* the view handles in this step an event about the note of the other board
OtherHandledNow(c) ==
  \/ /\ OtherNote \in insertEvents[c]
     /\ OtherNote \notin insertEvents'[c]
  \/ /\ noteInbox[c] # <<>>
     /\ Head(noteInbox[c]).row.id = OtherNote.id
     /\ noteInbox'[c] = Tail(noteInbox[c])
  \/ /\ likeInbox[c] # <<>>
     /\ Head(likeInbox[c]).note = OtherNote.id
     /\ likeInbox'[c] = Tail(likeInbox[c])

\* C34: a view that handles an event about a note of another board keeps
\* its list of notes as it is and schedules no refresh of a note
C34_OtherBoardLeavesList ==
  [][\A c \in Boards :
       OtherHandledNow(c) => /\ notes'[c] = notes[c]
                             /\ refreshes' = refreshes]_vars

\* the host's view shows the note of its board and has, ahead of anything
\* else, the DELETE of the other board's note and the change of a like of
\* it to handle
C34_Witness ==
  /\ Len(notes["b1"]) > 0
  /\ noteInbox["b1"] # <<>>
  /\ Head(noteInbox["b1"]) = [kind |-> "DELETE", row |-> OtherNote]
  /\ likeInbox["b1"] # <<>>
  /\ Head(likeInbox["b1"]).kind = "note_likes"
  /\ Head(likeInbox["b1"]).note = OtherNote.id

\* ------------------------------------------------------------------------
\* MeetingBoard.tsx: the connection status shown
\* ------------------------------------------------------------------------
\* the status callback is called with SUBSCRIBED while the timer that an
\* earlier CHANNEL_ERROR set is still pending: the channel was joined again
\* within the second, by the client library on its own or by the
\* channel.subscribe() of the timer of a CHANNEL_ERROR before that one.
\* The presence is not announced again (channel.track is called once).
ChannelRejoined(c) ==
  /\ Loaded(c)
  /\ ~joined[c]
  /\ resubscribeTimer[c]
  /\ joined' = [joined EXCEPT ![c] = TRUE]
  /\ realTimeStatus' = [realTimeStatus EXCEPT ![c] = "connected"]
  /\ presence' = IF trackQueued[c] THEN presence \cup {c} ELSE presence
  /\ trackQueued' = [trackQueued EXCEPT ![c] = FALSE]
  /\ UNCHANGED <<mounted, expirationInterval, resubscribeTimer,
                 activeParticipants, liveParticipants, presenceState>>
  /\ UNCHANGED <<expiryVars, noteVars, likeVars, typingVars, editVars,
                 columnVars>>

\* the views of the host and the guest join, lose their connection, join
\* again and are closed
NextStatus ==
  \/ \E c \in LikeBoards : FetchMeeting(c)
  \/ \E c \in LikeBoards : ChannelSubscribed(c)
  \/ \E c \in LikeBoards : ChannelRejoined(c)
  \/ \E c \in LikeBoards : ChannelError(c)
  \/ \E c \in LikeBoards : ResubscribeTimer(c)
  \/ \E c \in LikeBoards : PresenceSync(c)
  \/ \E c \in LikeBoards : Unmount(c)

SpecStatus == InitLikes /\ [][NextStatus]_vars

\* C33: an open view shows connected exactly when the status that its
\* channel reported last is SUBSCRIBED, that is when the channel is joined
C33_StatusFollowsChannel ==
  \A c \in Boards :
    Loaded(c) => (realTimeStatus[c] = "connected" <=> joined[c])

\* ------------------------------------------------------------------------
\* Notes: two tabs of the host and the guest's view
\* ------------------------------------------------------------------------
NextNoteTabs ==
  \/ \E c \in Boards : FetchMeeting(c)
  \/ \E c \in Boards : AddNote(c, "y", "glad")
  \/ \E r \in addReq : InsertNoteApply(r)
  \/ \E r \in addReq : AddNoteReturn(r)
  \/ \E c \in Boards : \E row \in insertEvents[c] : NoteInserted(c, row)

SpecNoteTabs == InitLikes /\ [][NextNoteTabs]_vars

\* the ids of the entries of a list
IdsOf(list) == {list[i].id : i \in 1..Len(list)}

\* C35: once every insert and every INSERT event has been handled, the ids
\* in the list of each open view are the ids of the stored notes
C35_ListsConverge ==
  NotesAtRest =>
    \A c \in Boards : Loaded(c) => IdsOf(notes[c]) = IdsOf(dbNotes)

\* ------------------------------------------------------------------------
\* Edits: a peer's change arriving while an own write is in flight
\* ------------------------------------------------------------------------
\* the call is the only edit made in its view, and the entry of the note
\* there differs from what the optimistic change of the call made of
\* originalNote: an UPDATE event of a peer's change has been applied since
PeerChangeApplied(r) ==
  /\ edits[r.client] = 1
  /\ HasId(notes[r.client], r.note)
  /\ <<FindNote(notes[r.client], r.note)>> #
       Optimistic(<<r.original>>, r.op, r.note, r.value)

\* C36: when the write of updateNote or updateNoteType fails after an
\* UPDATE event of a peer's change of the note was applied to the list, and
\* no further event is on its way to the view, the rollback leaves the note
\* with the stored content and type
C36_RollbackKeepsPeerChange ==
  [][\A r \in UpdateFailsNow :
       (PeerChangeApplied(r) /\ noteInbox[r.client] = <<>>)
         => \A i \in 1..Len(notes'[r.client]) :
              notes'[r.client][i].id = r.note
                => \E j \in 1..Len(dbNotes) :
                     /\ dbNotes[j].id = r.note
                     /\ dbNotes[j].content = notes'[r.client][i].content
                     /\ dbNotes[j].type = notes'[r.client][i].type]_vars

\* ------------------------------------------------------------------------
\* MeetingBoard.tsx: the notes UPDATE handler, step by step
\* ------------------------------------------------------------------------
\* the handler is called with the event and calls
\* fetchNoteWithLikes(payload.new); its queries are on their way to the
\* store, and the next event can be handled meanwhile
NoteUpdateReceived(c) ==
  /\ noteInbox[c] # <<>>
  /\ Head(noteInbox[c]).kind = "UPDATE"
  /\ noteInbox' = [noteInbox EXCEPT ![c] = Tail(@)]
  /\ refreshes' = refreshes \cup
                    {Refresh("update", 0, c, Head(noteInbox[c]).row, "query")}
  /\ UNCHANGED noteVars
  /\ UNCHANGED <<subscribedNotes, likingNotes, likeSeq, toggles, overlapped,
                 likeReq, likeInbox>>
  /\ UNCHANGED <<realtimeFix, edits, editReq, alertSeen, redelivered>>
  /\ UNCHANGED <<expiryVars, typingVars, columnVars, channelVars>>

\* the host edits and moves the note; the guest's and the host's view
\* handle the UPDATE events, each handler in its two steps
NextUpdateOrder ==
  \/ \E c \in NoteBoards : FetchMeeting(c)
  \/ \E id \in 1..noteSeq : \E content \in Contents :
       UpdateNote("b1", id, content)
  \/ \E id \in 1..noteSeq : \E type \in Sections :
       UpdateNoteType("b1", id, type)
  \/ \E r \in editReq : EditApply(r)
  \/ \E r \in editReq : EditReturn(r)
  \/ \E c \in NoteBoards : NoteUpdateReceived(c)
  \/ \E f \in refreshes : RefreshQuery(f)
  \/ \E f \in refreshes : RefreshApply(f)

SpecUpdateOrder == InitLikes /\ [][NextUpdateOrder]_vars

\* C37: in a view that makes no edits, once every write has settled and
\* every UPDATE handler of the view has finished, each note shows the
\* content and the section of the stored row, which are those of the last
\* UPDATE event of the note
C37_LaterUpdateWins ==
  \A c \in Boards :
    (/\ Loaded(c) /\ edits[c] = 0
     /\ editReq = {} /\ noteInbox[c] = <<>>
     /\ \A f \in refreshes : f.client # c)
    => \A i \in 1..Len(notes[c]) :
         \E j \in 1..Len(dbNotes) :
           /\ dbNotes[j].id = notes[c][i].id
           /\ dbNotes[j].content = notes[c][i].content
           /\ dbNotes[j].type = notes[c][i].type

\* ------------------------------------------------------------------------
\* The meetings row is well formed
\* ------------------------------------------------------------------------
\* C39: the stored board is active with ended_at and ended_by null, or
\* ended with ended_at set and ended_by null or the id of the host
C39_BoardRowWellFormed ==
  /\ dbMeeting.status \in {"active", "ended"}
  /\ dbMeeting.status = "active"
       => dbMeeting.ended_at = NullTime /\ dbMeeting.ended_by = NullUser
  /\ dbMeeting.status = "ended"
       => dbMeeting.ended_at # NullTime /\ dbMeeting.ended_by \in {NullUser, Owner}

\* the host has ended the board by hand: the row carries the time and the
\* host's id
C39_Witness ==
  /\ dbMeeting.status = "ended"
  /\ dbMeeting.ended_by = Owner
  /\ dbMeeting.ended_at # NullTime

\* ------------------------------------------------------------------------
\* Timers left when a view is closed
\* ------------------------------------------------------------------------
\* the callback of the resubscription timer of the view runs in this step:
\* channel.subscribe() is called
SubscribeCalledNow(c) == resubscribeTimer[c] /\ ~resubscribeTimer'[c]

\* C40: once a view is closed the callback of its resubscription timer
\* does not run (the channel is not called) and the status it showed is
\* not changed
C40_NoTimerAfterClose ==
  [][\A c \in Boards :
       ~mounted[c] => /\ ~SubscribeCalledNow(c)
                      /\ realTimeStatus'[c] = realTimeStatus[c]]_vars

====
